---- MODULE Spec2Model ----
(***************************************************************************)
(* x402 Solana SDK: the payment verifier (sdk/solana-utils.ts), the        *)
(* verification cache and the server guard (X402Server, PaymentCache),     *)
(* and the paying client (X402Client.fetch).                               *)
(*                                                                         *)
(* Strings that the code takes apart (amounts) are sequences of one-char   *)
(* strings; addresses, mints, networks and signatures are opaque strings.  *)
(* Time is Date.now() in milliseconds.                                     *)
(***************************************************************************)
EXTENDS Integers, Sequences, FiniteSets, TLC

VARIABLES
    now,      \* Date.now(), milliseconds
    ledger,   \* signature -> the transaction getTransaction returns, or NoTx
    head,     \* the slot getSlot returns
    ver,      \* one call of verifyPaymentTransaction
    cache,    \* PaymentCache.cache : signature -> entry, or NoEntry
    probe,    \* the last direct PaymentCache call and what it returned
    config,   \* X402ServerConfig
    srv,      \* the requirePayment invocations in flight, one per process
    nreq,     \* requests the server has received
    cli,      \* one call of X402Client.fetch
    codec,    \* one use of the amount codec on a price
    bld       \* one call of createPaymentTransaction

vars == <<now, ledger, head, ver, cache, probe, config, srv, nreq, cli, codec, bld>>

(***************************************************************************)
(* Decimal strings and BigInt                                              *)
(***************************************************************************)
Digits == <<"0", "1", "2", "3", "4", "5", "6", "7", "8", "9">>

IsDigit(c) == \E i \in 1..10 : Digits[i] = c

DigitVal(c) == (CHOOSE i \in 1..10 : Digits[i] = c) - 1

RECURSIVE DigitsVal(_)
DigitsVal(s) ==
    IF s = <<>> THEN 0
    ELSE 10 * DigitsVal(SubSeq(s, 1, Len(s) - 1)) + DigitVal(s[Len(s)])

\* BigInt(string) throws a SyntaxError unless the string is an integer literal
\* (the empty string is 0n).
BigIntOk(s) ==
    \/ s = <<>>
    \/ /\ \A i \in 1..Len(s) : IsDigit(s[i])
    \/ /\ Len(s) > 1
       /\ s[1] = "-"
       /\ \A i \in 2..Len(s) : IsDigit(s[i])

BigInt(s) ==
    IF s # <<>> /\ s[1] = "-" THEN 0 - DigitsVal(Tail(s)) ELSE DigitsVal(s)

(***************************************************************************)
(* Static tables                                                           *)
(***************************************************************************)
Networks == {"mainnet-beta", "devnet", "testnet"}

TokenTypes == {"SOL", "USDC", "USDT"}

TOKEN_MINTS ==
    [n \in Networks |->
        CASE n = "mainnet-beta" ->
                [SOL  |-> "So11111111111111111111111111111111111111112",
                 USDC |-> "EPjFWdd5AufqSSqeM2qN1xzybapC8G4wEGGkZwyTDt1v",
                 USDT |-> "Es9vMFrzaCERmJfrF4H2FYD4KCoNkY11McCe8BenwNYB"]
          [] n = "devnet" ->
                [SOL  |-> "So11111111111111111111111111111111111111112",
                 USDC |-> "4zMMC9srt5Ri5X14GAgXhaHii3GnPAEERYPJgZJDncDU",
                 USDT |-> "EJwZgeZrdC8TXTQbQBoL6bfuAnFUUy1PVCMB4DYPzVaS"]
          [] OTHER ->
                [SOL  |-> "So11111111111111111111111111111111111111112",
                 USDC |-> "CpMah17kQEL2wqyMKt3mZBdTnZbkbfx4nqmQMFDP5vwp",
                 USDT |-> "EJwZgeZrdC8TXTQbQBoL6bfuAnFUUy1PVCMB4DYPzVaS"]]

\* The slot distance verifyPaymentTransaction asks for at finalized commitment.
FinalityDepth == 32

(***************************************************************************)
(* The ledger as the verifier sees it                                      *)
(***************************************************************************)
PayerAddr == "PayerWallet"
RecipientAddr == "RecipientWallet"
OtherAddr == "OtherWallet"
PayerATA == "PayerTokenAccount"
DestATA == "DestTokenAccount"

\* new PublicKey(s) throws for a string that is no base58 public key.
MalformedAddr == "not-an-address"

PublicKeyOk(a) == a # MalformedAddr

Sigs == {"sigA", "sigB"}

\* getTransaction's answer for a signature the ledger does not hold.
NoTx == [absent |-> TRUE]

NativeTx(slot, err, keys, pre, post) ==
    [slot |-> slot, err |-> err, accountKeys |-> keys,
     preBalances |-> pre, postBalances |-> post,
     preTokenBalances |-> <<>>, postTokenBalances |-> <<>>]

TokenTx(slot, err, pre, post) ==
    [slot |-> slot, err |-> err,
     accountKeys |-> <<PayerAddr, PayerATA, DestATA>>,
     preBalances |-> <<10, 2, 2>>, postBalances |-> <<9, 2, 2>>,
     preTokenBalances |-> pre, postTokenBalances |-> post]

Bal(owner, mint, amount) == [owner |-> owner, mint |-> mint, amount |-> amount]

DevUSDC == TOKEN_MINTS["devnet"]["USDC"]
DevUSDT == TOKEN_MINTS["devnet"]["USDT"]

\* Recipient balance changes of the sample transactions; requirements ask for 3.
NativeDeltas == {0, 2, 3, 4}

NativeBase ==
    {NativeTx(7, FALSE, <<PayerAddr, RecipientAddr>>, <<10, 1>>, <<9 - d, 1 + d>>) :
        d \in NativeDeltas}
    \cup {NativeTx(7, FALSE, <<PayerAddr, OtherAddr>>, <<10, 1>>, <<6, 4>>)}
    \cup {NativeTx(7, FALSE, <<PayerAddr, OtherAddr, RecipientAddr>>,
                   <<10, 1, 0>>, <<6 - d, 4, d>>) : d \in NativeDeltas}

\* Token balance lists: an entry of another owner, an entry of the recipient in
\* another mint, and the recipient's entry in the asked mint, each optional.
OptSeq(present, e) == IF present THEN <<e>> ELSE <<>>

TokenBase ==
    {TokenTx(7, FALSE,
             OptSeq(other, Bal(OtherAddr, DevUSDC, 1))
                \o OptSeq(wrong, Bal(RecipientAddr, DevUSDT, 0))
                \o OptSeq(rpre, Bal(RecipientAddr, DevUSDC, 1)),
             OptSeq(other, Bal(OtherAddr, DevUSDC, 4))
                \o OptSeq(wrong, Bal(RecipientAddr, DevUSDT, 3))
                \o OptSeq(rpost > 0, Bal(RecipientAddr, DevUSDC, rpost))) :
        other \in BOOLEAN, wrong \in BOOLEAN, rpre \in BOOLEAN, rpost \in {0, 3, 4}}

\* The same payments failed on chain, at slot 0 and at a recent slot.
Variants(tx) ==
    {tx, [tx EXCEPT !.err = TRUE], [tx EXCEPT !.slot = 0], [tx EXCEPT !.slot = 8]}

GoodNative == NativeTx(7, FALSE, <<PayerAddr, RecipientAddr>>, <<10, 1>>, <<6, 4>>)

GoodToken ==
    TokenTx(7, FALSE, <<Bal(RecipientAddr, DevUSDC, 1)>>, <<Bal(RecipientAddr, DevUSDC, 4)>>)

TxSamples == NativeBase \cup TokenBase \cup Variants(GoodNative) \cup Variants(GoodToken)

HeadSamples == {8, 30, 38, 39, 40}

(***************************************************************************)
(* Payment requirements handed to the verifier                             *)
(***************************************************************************)
Deadline(set, at) == [set |-> set, at |-> at]
NoDeadline == Deadline(FALSE, 0)

Requirements(network, amount, token, recipient, deadline) ==
    [scheme |-> "exact", network |-> network, amount |-> amount, token |-> token,
     recipient |-> recipient, deadline |-> deadline]

ReqSamples ==
    {Requirements("devnet", a, t, r, NoDeadline) :
        a \in {<<"3">>, <<"0">>, <<"3", ".", "5">>},
        t \in TokenTypes,
        r \in {RecipientAddr, MalformedAddr}}

Commitments == {"confirmed", "finalized"}

(***************************************************************************)
(* verifyPaymentTransaction, check by check                                *)
(***************************************************************************)
\* if (!transaction)
TxMissing(tx) == tx = NoTx

\* if (transaction.meta?.err)
TxFailed(tx) == tx.err

\* if (commitment === "finalized" && transaction.slot)
AsksSlot(commitment, tx) == commitment = "finalized" /\ tx.slot # 0

\* if (currentSlot - transaction.slot < 32)
NotYetFinal(currentSlot, tx) == currentSlot - tx.slot < FinalityDepth

\* staticAccountKeys.findIndex(key => key.equals(recipient)); 0 stands for -1.
FindIndex(keys, recipient) ==
    IF \E i \in DOMAIN keys : keys[i] = recipient
    THEN CHOOSE i \in DOMAIN keys :
            keys[i] = recipient /\ \A j \in DOMAIN keys : keys[j] = recipient => i <= j
    ELSE 0

\* BigInt(balances[index] || 0)
BalanceAt(balances, index) == IF index \in DOMAIN balances THEN balances[index] ELSE 0

\* Mutant: a fee tolerance of one base unit on the recipient side.
InsufficientWithTolerance(actualAmount, expectedAmount) == actualAmount + 1 < expectedAmount

\* if (actualAmount < expectedAmount)
Insufficient(actualAmount, expectedAmount) == actualAmount < expectedAmount

\* Mutant: the owner comparison dropped.
BalanceMatchesMintOnly(balance, recipient, mintAddress) == balance.mint = mintAddress

\* Mutant: the mint comparison dropped.
BalanceMatchesOwnerOnly(balance, recipient, mintAddress) == balance.owner = recipient

\* balance.owner === recipient.toBase58() && balance.mint === mintAddress.toBase58()
BalanceMatches(balance, recipient, mintAddress) ==
    balance.owner = recipient /\ balance.mint = mintAddress

\* tokenBalances.find(...): the index of the first match, 0 for undefined.
FindBalance(balances, recipient, mintAddress) ==
    IF \E i \in DOMAIN balances : BalanceMatches(balances[i], recipient, mintAddress)
    THEN CHOOSE i \in DOMAIN balances :
            /\ BalanceMatches(balances[i], recipient, mintAddress)
            /\ \A j \in DOMAIN balances :
                  BalanceMatches(balances[j], recipient, mintAddress) => i <= j
    ELSE 0

\* BigInt(preBalance?.uiTokenAmount.amount || 0)
TokenAmountAt(balances, index) == IF index = 0 THEN 0 ELSE balances[index].amount

\* What a call returns: the promise resolves to result, or rejects (threw).
Verdict(result, steps) == [result |-> result, steps |-> steps, threw |-> FALSE]

\* The catch block: console.error and return false.
Caught(steps) == Verdict(FALSE, steps \o <<"error">>)

\* Lines 365-389: the native-asset branch.
VerifyNative(tx, recipient, expectedAmount) ==
    LET recipientIndex == FindIndex(tx.accountKeys, recipient)
        actualAmount == BalanceAt(tx.postBalances, recipientIndex)
                            - BalanceAt(tx.preBalances, recipientIndex)
    IN  IF recipientIndex = 0 THEN Verdict(FALSE, <<"recipient">>)
        ELSE IF Insufficient(actualAmount, expectedAmount)
             THEN Verdict(FALSE, <<"recipient", "amount">>)
             ELSE Verdict(TRUE, <<"recipient", "amount">>)

\* Lines 392-437: the fungible-token branch.
VerifyToken(tx, recipient, mintAddress, expectedAmount) ==
    LET postBalance == FindBalance(tx.postTokenBalances, recipient, mintAddress)
        preBalance == FindBalance(tx.preTokenBalances, recipient, mintAddress)
        actualAmount == TokenAmountAt(tx.postTokenBalances, postBalance)
                            - TokenAmountAt(tx.preTokenBalances, preBalance)
    IN  IF postBalance = 0 THEN Verdict(FALSE, <<"tokenBalance">>)
        ELSE IF Insufficient(actualAmount, expectedAmount)
             THEN Verdict(FALSE, <<"tokenBalance", "amount">>)
             ELSE Verdict(TRUE, <<"tokenBalance", "amount">>)

\* Lines 361-440: everything after the finality gate.
VerifyAmounts(tx, requirements) ==
    IF ~PublicKeyOk(requirements.recipient) \/ ~BigIntOk(requirements.amount)
    THEN Caught(<<>>)
    ELSE IF requirements.token = "SOL"
         THEN VerifyNative(tx, requirements.recipient, BigInt(requirements.amount))
         ELSE VerifyToken(tx, requirements.recipient,
                          TOKEN_MINTS[requirements.network][requirements.token],
                          BigInt(requirements.amount))

\* Mutant: an unseen signature raises instead of returning false.
NotFoundThrows == [result |-> FALSE, steps |-> <<"existence">>, threw |-> TRUE]

\* Lines 340-343: console.error("Transaction not found") and return false.
NotFound == Verdict(FALSE, <<"existence">>)

\* Lines 340-359 on getTransaction's answer: a verdict, or the getSlot query.
AfterFetch(tx, requirements, commitment) ==
    IF TxMissing(tx) THEN [pc |-> "done", v |-> NotFound]
    ELSE IF TxFailed(tx)
         THEN [pc |-> "done", v |-> Verdict(FALSE, <<"existence", "success">>)]
         ELSE IF AsksSlot(commitment, tx)
              THEN [pc |-> "getSlot", v |-> Verdict(FALSE, <<"existence", "success", "getSlot">>)]
              ELSE LET rest == VerifyAmounts(tx, requirements)
                   IN  [pc |-> "done",
                        v |-> Verdict(rest.result, <<"existence", "success">> \o rest.steps)]

\* Lines 353-359 on getSlot's answer, then the rest.
AfterSlot(tx, requirements, currentSlot) ==
    IF NotYetFinal(currentSlot, tx) THEN Verdict(FALSE, <<"finality">>)
    ELSE LET rest == VerifyAmounts(tx, requirements)
         IN  Verdict(rest.result, <<"finality">> \o rest.steps)

(***************************************************************************)
(* One call of verifyPaymentTransaction as a process                       *)
(***************************************************************************)
VerIdle ==
    [pc |-> "idle", signature |-> "sigA", requirements |-> Requirements("devnet", <<"3">>, "SOL", RecipientAddr, NoDeadline),
     commitment |-> "confirmed", transaction |-> NoTx, currentSlot |-> 0,
     steps |-> <<>>, result |-> FALSE, threw |-> FALSE]

\* verifyPaymentTransaction(connection, signature, requirements, commitment)
\* up to the first await.
VerifyCall(signature, requirements, commitment) ==
    /\ ver.pc = "idle"
    /\ ver' = [VerIdle EXCEPT !.pc = "getTransaction", !.signature = signature,
                              !.requirements = requirements, !.commitment = commitment,
                              !.steps = <<"getTransaction">>]
    /\ UNCHANGED <<now, ledger, head, cache, probe, config, srv, nreq, cli, codec, bld>>

\* connection.getTransaction resolves.
VerifyGetTransaction ==
    /\ ver.pc = "getTransaction"
    /\ LET tx == ledger[ver.signature]
           nxt == AfterFetch(tx, ver.requirements, ver.commitment)
       IN  ver' = [ver EXCEPT !.pc = nxt.pc, !.transaction = tx,
                              !.steps = @ \o nxt.v.steps, !.result = nxt.v.result,
                              !.threw = nxt.v.threw]
    /\ UNCHANGED <<now, ledger, head, cache, probe, config, srv, nreq, cli, codec, bld>>

\* connection.getSlot resolves.
VerifyGetSlot ==
    /\ ver.pc = "getSlot"
    /\ LET v == AfterSlot(ver.transaction, ver.requirements, head)
       IN  ver' = [ver EXCEPT !.pc = "done", !.currentSlot = head,
                              !.steps = @ \o v.steps, !.result = v.result,
                              !.threw = v.threw]
    /\ UNCHANGED <<now, ledger, head, cache, probe, config, srv, nreq, cli, codec, bld>>

\* Either query rejects (transport or RPC error): the catch block returns false.
VerifyRpcError ==
    /\ ver.pc \in {"getTransaction", "getSlot"}
    /\ LET v == Caught(ver.steps)
       IN  ver' = [ver EXCEPT !.pc = "done", !.steps = v.steps, !.result = v.result,
                              !.threw = v.threw]
    /\ UNCHANGED <<now, ledger, head, cache, probe, config, srv, nreq, cli, codec, bld>>

\* The chain grows between two queries.
AdvanceHead ==
    /\ \E h \in HeadSamples : h > head /\ head' = h
    /\ UNCHANGED <<now, ledger, ver, cache, probe, config, srv, nreq, cli, codec, bld>>

(***************************************************************************)
(* PaymentCache                                                            *)
(***************************************************************************)
\* An absent key of the cache map.
NoEntry == [absent |-> TRUE]

\* this.ttl = ttl * 1000
MsPerSecond == 1000

\* config.cacheTTL, in seconds.
CacheTTLSeconds == 1

\* Date.now() moves in steps of ClockStep up to MaxNow.
ClockStep == 500
MaxNow == 2000

\* Mutant: the TTL left in seconds.
TtlSeconds(ttl) == ttl

\* constructor(ttl): this.ttl = ttl * 1000
TtlMs(ttl) == ttl * MsPerSecond

\* Mutant: an entry exactly TTL old counts as expired.
ExpiredAtTtl(entry, t, ttl) == t - entry.timestamp >= ttl

\* if (Date.now() - entry.timestamp > this.ttl)
Expired(entry, t, ttl) == t - entry.timestamp > ttl

Entry(verified, timestamp) == [verified |-> verified, timestamp |-> timestamp]

\* What get returns: null (hit = FALSE) or the stored verdict.
Miss == [hit |-> FALSE, verified |-> FALSE]
Hit(verified) == [hit |-> TRUE, verified |-> verified]

\* Mutant: the verdict is written under every key.
CacheSetEveryKey(c, signature, verified, t) == [s \in DOMAIN c |-> Entry(verified, t)]

\* set(signature, verified)
CacheSet(c, signature, verified, t) == [c EXCEPT ![signature] = Entry(verified, t)]

\* get(signature): the value returned.
CacheGet(c, signature, t, ttl) ==
    IF c[signature] = NoEntry THEN Miss
    ELSE IF Expired(c[signature], t, ttl) THEN Miss
         ELSE Hit(c[signature].verified)

\* Mutant: an expired read empties the map (clear() in place of delete()).
CacheAfterGetClears(c, signature, t, ttl) ==
    IF c[signature] # NoEntry /\ Expired(c[signature], t, ttl)
    THEN [s \in DOMAIN c |-> NoEntry]
    ELSE c

\* get(signature): the map afterwards (this.cache.delete on expiry).
CacheAfterGet(c, signature, t, ttl) ==
    IF c[signature] # NoEntry /\ Expired(c[signature], t, ttl)
    THEN [c EXCEPT ![signature] = NoEntry]
    ELSE c

NoSet == [done |-> FALSE, verified |-> FALSE, at |-> 0]

NoProbe ==
    [op |-> "none", signature |-> "sigA", at |-> 0, got |-> Miss,
     sets |-> [s \in Sigs |-> NoSet]]

\* A PaymentCache used on its own: the calls made and, per signature, the last set.
ProbeSet(signature, verified) ==
    /\ cache' = CacheSet(cache, signature, verified, now)
    /\ probe' = [op |-> "set", signature |-> signature, at |-> now, got |-> Miss,
                 sets |-> [probe.sets EXCEPT ![signature] =
                              [done |-> TRUE, verified |-> verified, at |-> now]]]
    /\ UNCHANGED <<now, ledger, head, ver, config, srv, nreq, cli, codec, bld>>

ProbeGet(signature) ==
    /\ cache' = CacheAfterGet(cache, signature, now, TtlMs(config.cacheTTL))
    /\ probe' = [op |-> "get", signature |-> signature, at |-> now,
                 got |-> CacheGet(cache, signature, now, TtlMs(config.cacheTTL)),
                 sets |-> probe.sets]
    /\ UNCHANGED <<now, ledger, head, ver, config, srv, nreq, cli, codec, bld>>

Tick(step) ==
    /\ now + step <= MaxNow
    /\ now' = now + step
    /\ UNCHANGED <<ledger, head, ver, cache, probe, config, srv, nreq, cli, codec, bld>>

(***************************************************************************)
(* X402Server: createPaymentRequirements                                   *)
(***************************************************************************)
\* X402ServerConfig as the examples set it.
ServerConfig(enableCache) ==
    [network |-> "devnet", recipientAddress |-> RecipientAddr, enableCache |-> enableCache,
     cacheTTL |-> CacheTTLSeconds]

\* The index of the first "." of s, 0 when there is none.
IndexOfDot(s) ==
    IF \E i \in DOMAIN s : s[i] = "."
    THEN CHOOSE i \in DOMAIN s : s[i] = "." /\ \A j \in DOMAIN s : s[j] = "." => i <= j
    ELSE 0

\* String.prototype.split(".")
RECURSIVE Split(_)
Split(s) ==
    LET i == IndexOfDot(s)
    IN  IF i = 0 THEN <<s>>
        ELSE <<SubSeq(s, 1, i - 1)>> \o Split(SubSeq(s, i + 1, Len(s)))

Zeros(n) == [i \in 1..n |-> "0"]

\* String.prototype.padEnd(n, "0"): a string already n long or longer is kept.
PadEnd(s, n) == IF Len(s) >= n THEN s ELSE s \o Zeros(n - Len(s))

PaymentOptions(amount, token, deadline) ==
    [amount |-> amount, token |-> token, deadline |-> deadline]

\* createPaymentRequirements(options)
CreatePaymentRequirements(cfg, options) ==
    LET decimals == IF options.token = "SOL" THEN 9 ELSE 6
        parts == Split(options.amount)
        whole == parts[1]
        fraction == IF Len(parts) >= 2 THEN parts[2] ELSE <<>>
        paddedFraction == PadEnd(fraction, decimals)
        baseUnits == whole \o paddedFraction
    IN  Requirements(cfg.network, baseUnits, options.token, cfg.recipientAddress,
                     options.deadline)

\* The routes one server instance guards: "0.000000003" SOL without a deadline,
\* and "0.000000004" SOL with deadline 2.
RouteCheap == PaymentOptions(<<"0", ".">> \o Zeros(8) \o <<"3">>, "SOL", NoDeadline)
RouteDear == PaymentOptions(<<"0", ".">> \o Zeros(8) \o <<"4">>, "SOL", Deadline(TRUE, 2))
Routes == {RouteCheap, RouteDear}

(***************************************************************************)
(* X402Server: verifyPayment and the requirePayment middleware             *)
(***************************************************************************)
Procs == {"p1", "p2"}

\* Requests the server receives in one run.
MaxRequests == 3

\* The x-payment header of a request.
NoProofValue == [signature |-> "sigA", network |-> "devnet", timestamp |-> 0]
NoHeader == [kind |-> "none", proof |-> NoProofValue]
\* A header that is present with an empty value: req.headers["x-payment"] = "".
EmptyHeader == [kind |-> "empty", proof |-> NoProofValue]
\* A header that is not JSON, or JSON that PaymentProofSchema.parse refuses.
BadHeader == [kind |-> "malformed", proof |-> NoProofValue]
ProofHeader(signature, network, timestamp) ==
    [kind |-> "proof",
     proof |-> [signature |-> signature, network |-> network, timestamp |-> timestamp]]

Headers ==
    {NoHeader, EmptyHeader, BadHeader}
        \cup {ProofHeader("sigA", n, 1) : n \in {"devnet", "mainnet-beta"}}
        \cup {ProofHeader("sigA", "devnet", 1500), ProofHeader("sigB", "devnet", 1)}

\* Response bodies are the JSON values handed to res.json().
NoBody == [absent |-> TRUE]
NoResponse == [status |-> 0, body |-> NoBody]

\* res.status(402).json(requirements)
ChallengeBody(requirements) == requirements

\* res.status(402).json({ error: "Payment verification failed", requirements })
FailureBody(requirements) ==
    [error |-> "Payment verification failed", requirements |-> requirements]

\* res.status(500).json({ error: "Payment processing error", message })
ErrorBody(message) == [error |-> "Payment processing error", message |-> message]

SrvIdle ==
    [pc |-> "idle", options |-> RouteCheap, header |-> NoHeader,
     requirements |-> CreatePaymentRequirements(ServerConfig(TRUE), RouteCheap),
     verified |-> FALSE, source |-> "none", threw |-> FALSE, stored |-> FALSE,
     queried |-> FALSE, error |-> "none",
     response |-> NoResponse, next |-> FALSE, payment |-> FALSE]

\* !paymentHeader: the header is undefined or the empty string.
HeaderMissing(header) == header.kind \in {"none", "empty"}

\* Mutant: the challenge is sent and the handler is called all the same.
ChallengeAndContinue(r) ==
    [r EXCEPT !.pc = "done", !.next = TRUE,
              !.response = [status |-> 402, body |-> ChallengeBody(r.requirements)]]

\* No payment provided: 402 with the requirements, and return.
Challenge(r) ==
    [r EXCEPT !.pc = "done",
              !.response = [status |-> 402, body |-> ChallengeBody(r.requirements)]]

\* Mutant: the processing error is answered and the handler runs as well.
InvalidProofContinues(r) ==
    [r EXCEPT !.pc = "done", !.error = "InvalidPaymentProofError", !.next = TRUE,
              !.response = [status |-> 500, body |-> ErrorBody("Invalid payment proof format")]]

\* JSON.parse or PaymentProofSchema.parse threw: InvalidPaymentProofError is
\* thrown and the outer catch answers 500.
InvalidProof(r) ==
    [r EXCEPT !.pc = "done", !.error = "InvalidPaymentProofError",
              !.response = [status |-> 500, body |-> ErrorBody("Invalid payment proof format")]]

\* requirements.deadline && proof.timestamp > requirements.deadline
PastDeadline(proof, requirements) ==
    requirements.deadline.set /\ requirements.deadline.at # 0
        /\ proof.timestamp > requirements.deadline.at

\* Mutant: a failed verification is answered as a processing error.
RespondError(r, verified, source) ==
    IF verified
    THEN [r EXCEPT !.pc = "done", !.verified = TRUE, !.source = source,
                   !.payment = TRUE, !.next = TRUE]
    ELSE [r EXCEPT !.pc = "done", !.verified = FALSE, !.source = source,
                   !.response = [status |-> 500, body |-> ErrorBody("Payment verification failed")]]

\* Lines 389-404 of requirePayment on verifyPayment's answer: 402 with
\* {error, requirements}, or req.payment = {...} and next().
Respond(r, verified, source) ==
    IF verified
    THEN [r EXCEPT !.pc = "done", !.verified = TRUE, !.source = source,
                   !.payment = TRUE, !.next = TRUE]
    ELSE [r EXCEPT !.pc = "done", !.verified = FALSE, !.source = source,
                   !.response = [status |-> 402, body |-> FailureBody(r.requirements)]]

\* Mutant: the stored verdict is not consulted.
VerifyPaymentStartSkipsCache(r, got) ==
    IF r.header.proof.network # r.requirements.network
    THEN Respond(r, FALSE, "network")
    ELSE IF PastDeadline(r.header.proof, r.requirements)
         THEN Respond(r, FALSE, "deadline")
         ELSE [r EXCEPT !.pc = "getTransaction", !.queried = TRUE]

\* verifyPayment up to its first await: the cache lookup, then the network and
\* deadline checks, then the call of verifyPaymentTransaction.
VerifyPaymentStart(r, got) ==
    IF got.hit THEN Respond(r, got.verified, "cache")
    ELSE IF r.header.proof.network # r.requirements.network
         THEN Respond(r, FALSE, "network")
         ELSE IF PastDeadline(r.header.proof, r.requirements)
              THEN Respond(r, FALSE, "deadline")
              ELSE [r EXCEPT !.pc = "getTransaction", !.queried = TRUE]

\* The middleware runs on a request up to its first suspension.
RequirePayment(p, options, header) ==
    /\ srv[p].pc \in {"idle", "done"}
    /\ nreq < MaxRequests
    /\ LET requirements == CreatePaymentRequirements(config, options)
           r == [SrvIdle EXCEPT !.options = options, !.header = header,
                                !.requirements = requirements]
           ttl == TtlMs(config.cacheTTL)
           signature == header.proof.signature
       IN  IF HeaderMissing(header)
           THEN /\ srv' = [srv EXCEPT ![p] = Challenge(r)]
                /\ cache' = cache
           ELSE IF header.kind = "malformed"
                THEN /\ srv' = [srv EXCEPT ![p] = InvalidProof(r)]
                     /\ cache' = cache
                ELSE IF config.enableCache
                     THEN /\ srv' = [srv EXCEPT ![p] =
                                      VerifyPaymentStart(r, CacheGet(cache, signature, now, ttl))]
                          /\ cache' = CacheAfterGet(cache, signature, now, ttl)
                     ELSE /\ srv' = [srv EXCEPT ![p] = VerifyPaymentStart(r, Miss)]
                          /\ cache' = cache
    /\ nreq' = nreq + 1
    /\ UNCHANGED <<now, ledger, head, ver, probe, config, cli, codec, bld>>

\* verifyPaymentTransaction(connection, signature, requirements, "confirmed")
\* resolves: getTransaction answered and the checks ran.
VerifyPaymentResolves(p) ==
    /\ srv[p].pc = "getTransaction"
    /\ LET v == AfterFetch(ledger[srv[p].header.proof.signature],
                           srv[p].requirements, "confirmed").v
       IN  srv' = [srv EXCEPT ![p] = [@ EXCEPT !.pc = "verified", !.verified = v.result,
                                               !.threw = v.threw, !.source = "ledger"]]
    /\ UNCHANGED <<now, ledger, head, ver, cache, probe, config, nreq, cli, codec, bld>>

\* getTransaction fails (transport or RPC error) inside verifyPaymentTransaction.
VerifyPaymentRpcError(p) ==
    /\ srv[p].pc = "getTransaction"
    /\ LET v == Caught(<<>>)
       IN  srv' = [srv EXCEPT ![p] = [@ EXCEPT !.pc = "verified", !.verified = v.result,
                                               !.threw = v.threw, !.source = "rpcError"]]
    /\ UNCHANGED <<now, ledger, head, ver, cache, probe, config, nreq, cli, codec, bld>>

\* verifyPayment resumes: it stores the verdict (its own catch returns false
\* without storing), and requirePayment answers.
RequirePaymentResume(p) ==
    /\ srv[p].pc = "verified"
    /\ IF srv[p].threw
       THEN /\ srv' = [srv EXCEPT ![p] = Respond(@, FALSE, @.source)]
            /\ cache' = cache
       ELSE /\ srv' = [srv EXCEPT ![p] =
                        Respond([@ EXCEPT !.stored = config.enableCache], @.verified, @.source)]
            /\ cache' = IF config.enableCache
                        THEN CacheSet(cache, srv[p].header.proof.signature, srv[p].verified, now)
                        ELSE cache
    /\ UNCHANGED <<now, ledger, head, ver, probe, config, nreq, cli, codec, bld>>

\* A submitted transaction becomes visible on the ledger under its signature.
Pay4 == NativeTx(7, FALSE, <<PayerAddr, RecipientAddr>>, <<10, 1>>, <<5, 5>>)

\* The same transfer, executed and failed (meta.err set).
PayFailed == NativeTx(7, TRUE, <<PayerAddr, RecipientAddr>>, <<10, 1>>, <<10, 1>>)

\* sigA pays 3 lamports to the recipient; sigB pays 4, or fails.
LandSamples(s) == IF s = "sigA" THEN {GoodNative} ELSE {Pay4, PayFailed}

Land(s) ==
    /\ ledger[s] = NoTx
    /\ \E tx \in LandSamples(s) : ledger' = [ledger EXCEPT ![s] = tx]
    /\ UNCHANGED <<now, head, ver, cache, probe, config, srv, nreq, cli, codec, bld>>

(***************************************************************************)
(* Amount codec: amountToBaseUnits, baseUnitsToAmount                      *)
(***************************************************************************)
TOKEN_DECIMALS == [SOL |-> 9, USDC |-> 6, USDT |-> 6]

\* String.prototype.slice(0, n)
SliceTo(s, n) == SubSeq(s, 1, IF n < Len(s) THEN n ELSE Len(s))

\* String.prototype.slice(-n): the last n characters.
SliceLast(s, n) == SubSeq(s, IF n < Len(s) THEN Len(s) - n + 1 ELSE 1, Len(s))

\* String.prototype.slice(0, -n): all but the last n characters.
SliceButLast(s, n) == SubSeq(s, 1, Len(s) - n)

\* String.prototype.padStart(n, "0")
PadStart(s, n) == IF Len(s) >= n THEN s ELSE Zeros(n - Len(s)) \o s

\* bigint.toString()
RECURSIVE NatToString(_)
NatToString(n) ==
    IF n < 10 THEN <<Digits[n + 1]>>
    ELSE NatToString(n \div 10) \o <<Digits[(n % 10) + 1]>>

BigIntToString(n) == IF n < 0 THEN <<"-">> \o NatToString(0 - n) ELSE NatToString(n)

\* Mutant: the fraction is padded and never cut.
FractionUncut(fraction, decimals) == PadEnd(fraction, decimals)

\* (parts[1] || "").padEnd(decimals, "0").slice(0, decimals)
Fraction(fraction, decimals) == SliceTo(PadEnd(fraction, decimals), decimals)

\* The string amountToBaseUnits hands to BigInt: whole + fraction.
BaseUnitDigits(amount, token) ==
    LET decimals == TOKEN_DECIMALS[token]
        parts == Split(amount)
        whole == IF parts[1] # <<>> THEN parts[1] ELSE <<"0">>
        fraction == Fraction(IF Len(parts) >= 2 THEN parts[2] ELSE <<>>, decimals)
    IN  whole \o fraction

\* amountToBaseUnits(amount, token)
AmountToBaseUnits(amount, token) == BigInt(BaseUnitDigits(amount, token))

AllZeros(s) == s # <<>> /\ \A i \in DOMAIN s : s[i] = "0"

\* /\.?0+$/ matches s from position i to its end.
TrailingMatch(s, i) ==
    LET rest == SubSeq(s, i, Len(s))
    IN  \/ AllZeros(rest)
        \/ rest # <<>> /\ rest[1] = "." /\ AllZeros(Tail(rest))

\* Mutant: /0+$/, which leaves the decimal point.
StripZerosOnly(s) ==
    IF \E i \in DOMAIN s : AllZeros(SubSeq(s, i, Len(s)))
    THEN LET i == CHOOSE i \in DOMAIN s :
                    /\ AllZeros(SubSeq(s, i, Len(s)))
                    /\ \A j \in DOMAIN s : AllZeros(SubSeq(s, j, Len(s))) => i <= j
         IN  SubSeq(s, 1, i - 1)
    ELSE s

\* s.replace(/\.?0+$/, ""): the leftmost match is removed.
StripTrailing(s) ==
    IF \E i \in DOMAIN s : TrailingMatch(s, i)
    THEN LET i == CHOOSE i \in DOMAIN s :
                    /\ TrailingMatch(s, i)
                    /\ \A j \in DOMAIN s : TrailingMatch(s, j) => i <= j
         IN  SubSeq(s, 1, i - 1)
    ELSE s

\* baseUnitsToAmount(baseUnits, token)
BaseUnitsToAmount(baseUnits, token) ==
    LET decimals == TOKEN_DECIMALS[token]
        str == PadStart(BigIntToString(baseUnits), decimals + 1)
        cut == SliceButLast(str, decimals)
        whole == IF cut # <<>> THEN cut ELSE <<"0">>
        fraction == SliceLast(str, decimals)
    IN  StripTrailing(whole \o <<".">> \o fraction)

\* A decimal string from its whole part and, when dotted, its fraction.
Decimal(whole, dotted, fraction) ==
    IF dotted THEN whole \o <<".">> \o fraction ELSE whole

\* Fractional parts: shorter than, as long as and longer than 6 and 9 digits.
FractionSamples ==
    {<<>>, <<"0", "0">>, <<"5">>, <<"5", "0">>, <<"0", "5">>, <<"0", "0", "1">>,
     Zeros(5) \o <<"1">>, Zeros(6) \o <<"5">>, Zeros(6) \o <<"1", "5">>,
     <<"9", "9", "9", "9", "9", "9", "9">>,
     Zeros(8) \o <<"1">>, Zeros(8) \o <<"1", "5">>, Zeros(8) \o <<"0", "9">>}

\* Whole parts: empty, zero, with a leading zero, ending in zeros.
WholeSamples(token) ==
    IF token = "SOL"
    THEN {<<>>, <<"0">>, <<"1">>, <<"0", "1">>}
    ELSE {<<>>, <<"0">>, <<"1">>, <<"0", "1">>, <<"1", "0">>, <<"1", "0", "0">>}

\* Prices with an asset; the base-unit values stay below 2^31.
CodecSamples ==
    UNION {{[amount |-> Decimal(w, d, f), token |-> t] :
                w \in WholeSamples(t), d \in BOOLEAN, f \in FractionSamples} :
           t \in TokenTypes}

\* Requirements that were not parsed or built.
NoRequirements == [absent |-> TRUE]

CodecInput(amount, token) ==
    [amount |-> amount, token |-> token, encoded |-> FALSE, baseUnits |-> 0,
     decoded |-> FALSE, back |-> <<>>, required |-> FALSE, requirements |-> NoRequirements]

CodecIdle == CodecInput(<<"0">>, "SOL")

\* baseUnits = amountToBaseUnits(amount, token)
CodecEncode ==
    /\ ~codec.encoded
    /\ codec' = [codec EXCEPT !.encoded = TRUE,
                              !.baseUnits = AmountToBaseUnits(codec.amount, codec.token)]
    /\ UNCHANGED <<now, ledger, head, ver, cache, probe, config, srv, nreq, cli, bld>>

\* back = baseUnitsToAmount(baseUnits, token)
CodecDecode ==
    /\ codec.encoded /\ ~codec.decoded
    /\ codec' = [codec EXCEPT !.decoded = TRUE,
                              !.back = BaseUnitsToAmount(codec.baseUnits, codec.token)]
    /\ UNCHANGED <<now, ledger, head, ver, cache, probe, config, srv, nreq, cli, bld>>

\* requirements = server.createPaymentRequirements({ amount, token })
CodecRequire ==
    /\ ~codec.required
    /\ codec' = [codec EXCEPT !.required = TRUE,
                              !.requirements =
                                  CreatePaymentRequirements(config,
                                      PaymentOptions(codec.amount, codec.token, NoDeadline))]
    /\ UNCHANGED <<now, ledger, head, ver, cache, probe, config, srv, nreq, cli, bld>>

(***************************************************************************)
(* Transaction builders: createSOLPaymentTransaction,                      *)
(* createTokenPaymentTransaction                                           *)
(***************************************************************************)
\* Amounts beyond 2^31 are kept as decimal digit strings: the digits of
\* BigInt(s) for an integer literal s, sign first, without leading zeros.
RECURSIVE DropLeadingZeros(_)
DropLeadingZeros(s) ==
    IF Len(s) > 1 /\ s[1] = "0" THEN DropLeadingZeros(Tail(s)) ELSE s

BigDigits(s) ==
    IF s = <<>> THEN <<"0">>
    ELSE IF s[1] = "-"
         THEN IF DropLeadingZeros(Tail(s)) = <<"0">> THEN <<"0">>
              ELSE <<"-">> \o DropLeadingZeros(Tail(s))
         ELSE DropLeadingZeros(s)

Negative(big) == big[1] = "-"

\* a > b for two non-negative digit strings without leading zeros.
RECURSIVE DigitsGreater(_, _)
DigitsGreater(a, b) ==
    IF Len(a) # Len(b) THEN Len(a) > Len(b)
    ELSE IF a = <<>> THEN FALSE
         ELSE IF a[1] # b[1] THEN DigitVal(a[1]) > DigitVal(b[1])
              ELSE DigitsGreater(Tail(a), Tail(b))

\* Number.MAX_SAFE_INTEGER = 2^53 - 1 = 9007199254740991
MAX_SAFE_INTEGER ==
    <<"9", "0", "0", "7", "1", "9", "9", "2", "5", "4", "7", "4", "0", "9", "9", "1">>

\* Mutant: the bound itself is refused.
ExceedsOrReachesSafeInteger(lamports) ==
    ~Negative(lamports)
        /\ (lamports = MAX_SAFE_INTEGER \/ DigitsGreater(lamports, MAX_SAFE_INTEGER))

\* lamports > BigInt(Number.MAX_SAFE_INTEGER)
ExceedsSafeInteger(lamports) ==
    ~Negative(lamports) /\ DigitsGreater(lamports, MAX_SAFE_INTEGER)

\* Number(bigint): the value itself within the safe range, the nearest double
\* (no longer the value) beyond it.
NumberOf(big) ==
    IF DigitsGreater(IF Negative(big) THEN Tail(big) ELSE big, MAX_SAFE_INTEGER)
    THEN [nearestDoubleOf |-> big]
    ELSE big

\* What the RPC node answers during one build: whether the payer's and the
\* recipient's associated token accounts exist, and the call that fails, if any.
\* "encode" stands for the instruction encoder refusing a negative amount, which
\* the libraries may or may not do.
BuildEnv(senderAccount, recipientAccount, failAt) ==
    [senderAccount |-> senderAccount, recipientAccount |-> recipientAccount,
     failAt |-> failAt]

BuildEnvs ==
    {BuildEnv(s, r, f) :
        s \in BOOLEAN, r \in BOOLEAN,
        f \in {"none", "senderInfo", "recipientInfo", "encode", "blockhash"}}

\* getAssociatedTokenAddress(mint, owner, ...)
AssociatedTokenAddress(mint, owner) == [ata |-> owner, mint |-> mint]

\* SystemProgram.transfer({ fromPubkey, toPubkey, lamports })
SystemTransfer(from, to, lamports) ==
    [program |-> "system", type |-> "transfer", from |-> from, to |-> to,
     amount |-> lamports]

\* createAssociatedTokenAccountInstruction(payer, ata, owner, mint, ...)
CreateAccount(payer, ata, owner, mint) ==
    [program |-> "associatedToken", type |-> "create", payer |-> payer, account |-> ata,
     owner |-> owner, mint |-> mint]

\* createTransferInstruction(source, destination, owner, amount, [], TOKEN_PROGRAM_ID)
TokenTransfer(source, destination, owner, amount) ==
    [program |-> "token", type |-> "transfer", from |-> source, to |-> destination,
     owner |-> owner, amount |-> amount]

\* The transaction returned, or the error thrown.
Built(instructions, payer) ==
    [ok |-> TRUE, instructions |-> instructions, feePayer |-> payer, error |-> "none"]

BuildThrows(error) ==
    [ok |-> FALSE, instructions |-> <<>>, feePayer |-> "none", error |-> error]

NoBuild == BuildThrows("none")

\* createSOLPaymentTransaction(connection, payer, requirements)
CreateSOLPaymentTransaction(payer, requirements, env) ==
    IF ~PublicKeyOk(requirements.recipient) THEN BuildThrows("InvalidPublicKey")
    ELSE IF ~BigIntOk(requirements.amount) THEN BuildThrows("SyntaxError")
    ELSE LET lamports == BigDigits(requirements.amount)
         IN  IF ExceedsSafeInteger(lamports) THEN BuildThrows("AmountOutOfRange")
             ELSE IF Negative(lamports) /\ env.failAt = "encode"
                  THEN BuildThrows("EncodeError")
             ELSE IF env.failAt = "blockhash" THEN BuildThrows("RpcError")
                  ELSE Built(<<SystemTransfer(payer, requirements.recipient,
                                              NumberOf(lamports))>>, payer)

\* Mutant: the transfer is added before the recipient's account is created.
TokenInstructionsTransferFirst(payer, recipient, mint, amount, recipientAccount) ==
    LET senderATA == AssociatedTokenAddress(mint, payer)
        recipientATA == AssociatedTokenAddress(mint, recipient)
    IN  <<TokenTransfer(senderATA, recipientATA, payer, amount)>>
          \o (IF recipientAccount THEN <<>>
              ELSE <<CreateAccount(payer, recipientATA, recipient, mint)>>)

\* Lines 194-219: the create-account instruction when the recipient has no
\* associated token account, then the transfer.
TokenInstructions(payer, recipient, mint, amount, recipientAccount) ==
    LET senderATA == AssociatedTokenAddress(mint, payer)
        recipientATA == AssociatedTokenAddress(mint, recipient)
    IN  (IF recipientAccount THEN <<>>
         ELSE <<CreateAccount(payer, recipientATA, recipient, mint)>>)
          \o <<TokenTransfer(senderATA, recipientATA, payer, amount)>>

\* Mutant: a missing payer account is provisioned by the transaction.
SenderMissingProvisioned(payer, requirements, env) ==
    IF env.failAt \in {"recipientInfo", "blockhash"} THEN BuildThrows("RpcError")
    ELSE LET mint == TOKEN_MINTS[requirements.network][requirements.token]
         IN  Built(<<CreateAccount(payer, AssociatedTokenAddress(mint, payer), payer, mint)>>
                     \o TokenInstructions(payer, requirements.recipient, mint,
                                          BigDigits(requirements.amount),
                                          env.recipientAccount), payer)

\* if (!senderAccount) throw new TransactionFailedError("Sender does not have ...")
SenderMissing(payer, requirements, env) == BuildThrows("MissingSourceAccount")

\* createTokenPaymentTransaction(connection, payer, requirements)
CreateTokenPaymentTransaction(payer, requirements, env) ==
    IF ~PublicKeyOk(requirements.recipient) THEN BuildThrows("InvalidPublicKey")
    ELSE IF ~BigIntOk(requirements.amount) THEN BuildThrows("SyntaxError")
    ELSE IF env.failAt = "senderInfo" THEN BuildThrows("RpcError")
    ELSE IF ~env.senderAccount THEN SenderMissing(payer, requirements, env)
    ELSE IF env.failAt = "recipientInfo" THEN BuildThrows("RpcError")
    ELSE IF Negative(BigDigits(requirements.amount)) /\ env.failAt = "encode"
         THEN BuildThrows("EncodeError")
    ELSE IF env.failAt = "blockhash" THEN BuildThrows("RpcError")
    ELSE Built(TokenInstructions(payer, requirements.recipient,
                                 TOKEN_MINTS[requirements.network][requirements.token],
                                 BigDigits(requirements.amount), env.recipientAccount),
               payer)

\* createPaymentTransaction(connection, payer, requirements)
CreatePaymentTransaction(payer, requirements, env) ==
    IF requirements.token = "SOL"
    THEN CreateSOLPaymentTransaction(payer, requirements, env)
    ELSE CreateTokenPaymentTransaction(payer, requirements, env)

\* Base-unit amounts: zero, small, with leading zeros, negative, not a number,
\* and around the safe-integer bound.
AmountSamples ==
    {<<"0">>, <<"3">>, <<"0", "0", "3">>, <<"-", "5">>, <<"3", ".", "5">>,
     MAX_SAFE_INTEGER,
     SubSeq(MAX_SAFE_INTEGER, 1, 15) \o <<"2">>,
     SubSeq(MAX_SAFE_INTEGER, 1, 15) \o <<"0">>,
     MAX_SAFE_INTEGER \o <<"0">>}

BuildSamples ==
    {Requirements("devnet", a, t, r, NoDeadline) :
        a \in AmountSamples, t \in TokenTypes, r \in {RecipientAddr, MalformedAddr}}

BldInput(requirements, env) ==
    [pc |-> "idle", payer |-> PayerAddr, requirements |-> requirements, env |-> env,
     out |-> NoBuild]

BldIdle == BldInput(Requirements("devnet", <<"0">>, "SOL", RecipientAddr, NoDeadline),
                    BuildEnv(TRUE, TRUE, "none"))

\* transaction = await createPaymentTransaction(connection, payer, requirements)
Build ==
    /\ bld.pc = "idle"
    /\ bld' = [bld EXCEPT !.pc = "done",
                          !.out = CreatePaymentTransaction(bld.payer, bld.requirements, bld.env)]
    /\ UNCHANGED <<now, ledger, head, ver, cache, probe, config, srv, nreq, cli, codec>>

(***************************************************************************)
(* X402Client: fetch, executePayment, retryWithPayment                     *)
(***************************************************************************)
\* A signer is absent, a Keypair (has secretKey), a WalletAdapter, or a
\* WalletAdapter whose object also has a secretKey property.
Signers == {"none", "keypair", "wallet", "walletWithSecretKey"}

\* isKeypair(signer): "secretKey" in signer
IsKeypair(signer) == signer \in {"keypair", "walletWithSecretKey"}

\* this.config = { autoRetry: true, maxRetries: 3, commitment: "confirmed", ...config }
ClientConfig(signer, autoRetry, maxRetries, commitment) ==
    [network |-> "devnet", signer |-> signer, autoRetry |-> autoRetry,
     maxRetries |-> maxRetries, commitment |-> commitment]

ClientConfigs ==
    {ClientConfig(s, a, m, c) :
        s \in Signers, a \in BOOLEAN, m \in {0, 3}, c \in Commitments}

\* X402FetchOptions: autoPayment (default true), signer, onPaymentRequired.
FetchOptions(autoPayment, signer, onPaymentRequired) ==
    [autoPayment |-> autoPayment, signer |-> signer,
     onPaymentRequired |-> onPaymentRequired]

FetchOptionSamples ==
    {FetchOptions(a, s, h) : a \in BOOLEAN, s \in Signers, h \in BOOLEAN}

\* A response body that is not JSON.
NotJson == [notJson |-> TRUE]

HttpResponse(status, body) == [status |-> status, body |-> body]

\* The RequestInit the caller passes to fetch: method, body and headers.
Request(method, body, contentType, authorization) ==
    [method |-> method, body |-> body,
     headers |-> [contentType |-> contentType, authorization |-> authorization,
                  xPayment |-> NoHeader]]

NoRequest == Request("none", "none", "absent", "absent")

RequestSamples ==
    {Request("GET", "none", "absent", "absent"),
     Request("POST", "plain text", "text/plain", "Bearer token"),
     Request("POST", "{json}", "application/json", "absent")}

\* Challenges from servers other than X402Server: a token price, and bodies
\* with a negative amount, a malformed recipient, an unknown scheme.
TokenChallenge == Requirements("devnet", <<"5">>, "USDC", RecipientAddr, NoDeadline)

NegativeAmountChallenge ==
    Requirements("devnet", <<"-", "5">>, "SOL", RecipientAddr, NoDeadline)

MalformedRecipientChallenge ==
    Requirements("devnet", <<"3">>, "SOL", MalformedAddr, NoDeadline)

UnknownSchemeChallenge ==
    [Requirements("devnet", <<"3">>, "SOL", RecipientAddr, NoDeadline)
        EXCEPT !.scheme = "unknown"]

\* What a server may answer: success, a server error, the 402 challenge of a
\* route, the 402 of a failed verification, a 402 whose body is not JSON.
Responses ==
    {HttpResponse(200, NoBody), HttpResponse(500, ErrorBody("Internal error"))}
        \cup {HttpResponse(402, ChallengeBody(CreatePaymentRequirements(ServerConfig(TRUE), o))) :
                o \in Routes}
        \cup {HttpResponse(402, FailureBody(CreatePaymentRequirements(ServerConfig(TRUE), RouteCheap))),
              HttpResponse(402, NotJson)}
        \cup {HttpResponse(402, ChallengeBody(r)) :
                r \in {TokenChallenge, NegativeAmountChallenge,
                       MalformedRecipientChallenge, UnknownSchemeChallenge}}

\* PaymentRequirementsSchema.parse(body)
RequirementsSchemaOk(body) ==
    /\ {"scheme", "network", "amount", "token", "recipient"} \subseteq DOMAIN body
    /\ body.scheme \in {"exact", "upto"}
    /\ body.network \in Networks
    /\ body.token \in TokenTypes

\* parsePaymentRequirements(response): the requirements, or it throws Error.
ParsePaymentRequirements(response) ==
    IF RequirementsSchemaOk(response.body)
    THEN [ok |-> TRUE, requirements |-> response.body]
    ELSE [ok |-> FALSE, requirements |-> NoRequirements]

NoResult == [kind |-> "none", response |-> NoResponse, requirements |-> NoRequirements]

CliIdle ==
    [pc |-> "idle",
     config |-> ClientConfig("none", TRUE, 3, "confirmed"),
     options |-> FetchOptions(TRUE, "none", FALSE),
     http |-> 0, builds |-> 0, signs |-> 0, sends |-> 0, confirms |-> 0, handlers |-> 0,
     requirements |-> NoRequirements,
     signature |-> "none", confirmed |-> "none", commitment |-> "none",
     proof |-> NoProofValue, retryHeader |-> NoHeader,
     first |-> NoResponse, retried |-> NoResponse, failedAt |-> "none",
     request |-> NoRequest, retryRequest |-> NoRequest,
     transaction |-> NoBuild, cause |-> "none", via |-> "none",
     result |-> NoResult]

\* const requestSigner = signer || this.config.signer
RequestSigner(c) == IF c.options.signer # "none" THEN c.options.signer ELSE c.config.signer

\* fetch returns a response to the caller.
Return(c, response) ==
    [c EXCEPT !.pc = "done",
              !.result = [kind |-> "response", response |-> response,
                          requirements |-> NoRequirements]]

\* fetch rejects with an error of the given kind.
Throw(c, kind) ==
    [c EXCEPT !.pc = "done",
              !.result = [kind |-> kind, response |-> NoResponse,
                          requirements |-> NoRequirements]]

\* Mutant: the caught error is not handed to the new error.
CauseDropped(error) == "none"

\* new TransactionFailedError(message, error): the caught error is the cause.
Cause(error) == error

\* Mutant: the retry path re-enters on failure while autoRetry allows it.
PaymentFailedResubmits(c, at, error) ==
    IF at \in {"send", "confirm"} /\ c.config.autoRetry /\ c.sends <= c.config.maxRetries
    THEN [c EXCEPT !.pc = "send", !.sends = @ + 1, !.failedAt = at]
    ELSE Throw([c EXCEPT !.failedAt = at, !.cause = Cause(error)], "TransactionFailedError")

\* executePayment's catch: throw new TransactionFailedError(..., error)
PaymentFailed(c, at, error) ==
    Throw([c EXCEPT !.failedAt = at, !.cause = Cause(error)], "TransactionFailedError")

\* The request retryWithPayment issues: {...options, headers} with X-Payment
\* and Content-Type set on a copy of the caller's headers.
RetryRequest(request, proof) ==
    [request EXCEPT
        !.headers.xPayment = ProofHeader(proof.signature, proof.network, proof.timestamp),
        !.headers.contentType = "application/json"]

\* retryWithPayment(url, fetchOptions, proof): the request again with X-Payment.
RetryWithPayment(c, proof) ==
    [c EXCEPT !.pc = "retry", !.proof = proof, !.http = @ + 1,
              !.retryHeader = ProofHeader(proof.signature, proof.network, proof.timestamp),
              !.retryRequest = RetryRequest(c.request, proof)]

\* Mutant: without a signer the payment is attempted all the same.
UnsignedProceeds(c, response) ==
    LET parsed == ParsePaymentRequirements(response)
    IN  IF parsed.ok
        THEN [c EXCEPT !.pc = "build", !.requirements = parsed.requirements,
                       !.builds = @ + 1]
        ELSE Throw(c, "Error")

\* if (!requestSigner) throw new PaymentRequiredError(await parse(response), ...)
Unsigned(c, response) ==
    LET parsed == ParsePaymentRequirements(response)
    IN  IF parsed.ok
        THEN [c EXCEPT !.pc = "done",
                       !.result = [kind |-> "PaymentRequiredError", response |-> NoResponse,
                                   requirements |-> parsed.requirements]]
        ELSE Throw(c, "Error")

\* Mutant: autoPayment is not looked at.
AfterFirstResponseAlwaysPays(c, response) ==
    IF response.status = 402
    THEN IF RequestSigner(c) = "none"
         THEN Unsigned(c, response)
         ELSE LET parsed == ParsePaymentRequirements(response)
              IN  IF ~parsed.ok
                  THEN Throw(c, "Error")
                  ELSE IF c.options.onPaymentRequired
                       THEN [c EXCEPT !.pc = "handler",
                                      !.requirements = parsed.requirements,
                                      !.handlers = @ + 1]
                       ELSE [c EXCEPT !.pc = "build",
                                      !.requirements = parsed.requirements,
                                      !.builds = @ + 1]
    ELSE Return(c, response)

\* Mutant: a body that does not parse is handed back to the caller.
AfterFirstResponseParseSwallowed(c, response) ==
    IF response.status = 402 /\ c.options.autoPayment
    THEN LET parsed == ParsePaymentRequirements(response)
         IN  IF ~parsed.ok
             THEN Return(c, response)
             ELSE IF RequestSigner(c) = "none"
                  THEN Unsigned(c, response)
                  ELSE IF c.options.onPaymentRequired
                       THEN [c EXCEPT !.pc = "handler",
                                      !.requirements = parsed.requirements,
                                      !.handlers = @ + 1]
                       ELSE [c EXCEPT !.pc = "build",
                                      !.requirements = parsed.requirements,
                                      !.builds = @ + 1]
    ELSE Return(c, response)

\* fetch after the first response arrived, up to its next suspension.
AfterFirstResponse(c, response) ==
    IF response.status = 402 /\ c.options.autoPayment
    THEN IF RequestSigner(c) = "none"
         THEN Unsigned(c, response)
         ELSE LET parsed == ParsePaymentRequirements(response)
              IN  IF ~parsed.ok
                  THEN Throw(c, "Error")
                  ELSE IF c.options.onPaymentRequired
                       THEN [c EXCEPT !.pc = "handler",
                                      !.requirements = parsed.requirements,
                                      !.handlers = @ + 1]
                       ELSE [c EXCEPT !.pc = "build",
                                      !.requirements = parsed.requirements,
                                      !.builds = @ + 1]
    ELSE Return(c, response)

\* Mutant: retryWithPayment goes through the paying fetch again.
RetriedRecursive(c, response) ==
    AfterFirstResponse([c EXCEPT !.retried = response], response)

\* return fetch(url, {...options, headers}): the retried response as it is.
Retried(c, response) ==
    Return([c EXCEPT !.retried = response], response)

\* Mutant: a confirmation that reports failure is asked for again.
ConfirmedPollsAgain(c, outcome, t) ==
    IF outcome = "true"
    THEN RetryWithPayment([c EXCEPT !.confirmed = outcome],
                          [signature |-> c.signature, network |-> c.requirements.network,
                           timestamp |-> t])
    ELSE IF outcome = "false"
         THEN [c EXCEPT !.confirmed = IF c.confirmed = "false" THEN "none" ELSE "false"]
         ELSE PaymentFailed([c EXCEPT !.confirmed = outcome], "confirm", "ConfirmError")

\* Mutant: the result of the confirmation is not looked at.
ConfirmedIgnoringResult(c, outcome, t) ==
    IF outcome = "throws"
    THEN PaymentFailed([c EXCEPT !.confirmed = outcome], "confirm", "ConfirmError")
    ELSE RetryWithPayment([c EXCEPT !.confirmed = outcome],
                          [signature |-> c.signature, network |-> c.requirements.network,
                           timestamp |-> t])

\* executePayment after confirmTransaction settled: outcome "true" (no error),
\* "false" (result.value.err set) or "throws".
Confirmed(c, outcome, t) ==
    IF outcome = "true"
    THEN RetryWithPayment([c EXCEPT !.confirmed = outcome],
                          [signature |-> c.signature, network |-> c.requirements.network,
                           timestamp |-> t])
    ELSE PaymentFailed([c EXCEPT !.confirmed = outcome], "confirm",
                       IF outcome = "false" THEN "NotConfirmed" ELSE "ConfirmError")

\* Mutant: the request is retried as soon as the transaction is sent.
SubmitThenRetry(c) ==
    [c EXCEPT !.pc = "retry", !.signs = @ + 1, !.sends = @ + 1, !.http = @ + 1]

\* signAndSendTransaction / signTransaction + sendRawTransaction: the signed
\* transaction is handed to the ledger.
Submit(c) == [c EXCEPT !.pc = "send", !.signs = @ + 1, !.sends = @ + 1]

\* client.fetch(url, options): the original request goes out.
ClientFetch(options, request) ==
    /\ cli.pc = "idle"
    /\ cli' = [cli EXCEPT !.pc = "request", !.options = options, !.request = request,
                          !.http = 1]
    /\ UNCHANGED <<now, ledger, head, ver, cache, probe, config, srv, nreq, codec, bld>>

ClientFirstResponse(response) ==
    /\ cli.pc = "request"
    /\ cli' = AfterFirstResponse([cli EXCEPT !.first = response], response)
    /\ UNCHANGED <<now, ledger, head, ver, cache, probe, config, srv, nreq, codec, bld>>

\* The global fetch rejects (connection failure), on either request.
ClientFetchRejects ==
    /\ cli.pc \in {"request", "retry"}
    /\ cli' = Throw(cli, "FetchError")
    /\ UNCHANGED <<now, ledger, head, ver, cache, probe, config, srv, nreq, codec, bld>>

\* createPaymentTransaction settles, the node having answered env; a Keypair
\* signs and sends at once, a wallet is asked to sign.
ClientBuildResolves(env) ==
    /\ cli.pc = "build"
    /\ LET transaction == CreatePaymentTransaction(PayerAddr, cli.requirements, env)
           c == [cli EXCEPT !.transaction = transaction]
       IN  cli' = IF ~transaction.ok THEN PaymentFailed(c, "build", transaction.error)
                  ELSE IF IsKeypair(RequestSigner(cli))
                       THEN Submit([c EXCEPT !.via = "signAndSendTransaction"])
                       ELSE [c EXCEPT !.pc = "sign", !.via = "signTransaction"]
    /\ UNCHANGED <<now, ledger, head, ver, cache, probe, config, srv, nreq, codec, bld>>

\* signer.signTransaction(transaction) settles.
ClientSignResolves(ok) ==
    /\ cli.pc = "sign"
    /\ cli' = IF ok THEN Submit(cli) ELSE PaymentFailed(cli, "sign", "SignError")
    /\ UNCHANGED <<now, ledger, head, ver, cache, probe, config, srv, nreq, codec, bld>>

\* sendRawTransaction settles; on success confirmTransaction is called with
\* this.config.commitment || "confirmed".
ClientSendResolves(ok, signature) ==
    /\ cli.pc = "send"
    /\ cli' = IF ok
              THEN [cli EXCEPT !.pc = "confirm", !.signature = signature,
                               !.confirms = @ + 1, !.commitment = cli.config.commitment]
              ELSE PaymentFailed(cli, "send", "SendError")
    /\ UNCHANGED <<now, ledger, head, ver, cache, probe, config, srv, nreq, codec, bld>>

ClientConfirmResolves(outcome) ==
    /\ cli.pc = "confirm"
    /\ cli' = Confirmed(cli, outcome, now)
    /\ UNCHANGED <<now, ledger, head, ver, cache, probe, config, srv, nreq, codec, bld>>

\* onPaymentRequired(requirements) settles with a proof, or rejects.
ClientHandlerResolves(ok, proof) ==
    /\ cli.pc = "handler"
    /\ cli' = IF ok THEN RetryWithPayment(cli, proof) ELSE Throw(cli, "HandlerError")
    /\ UNCHANGED <<now, ledger, head, ver, cache, probe, config, srv, nreq, codec, bld>>

ClientRetryResponse(response) ==
    /\ cli.pc = "retry"
    /\ cli' = Retried(cli, response)
    /\ UNCHANGED <<now, ledger, head, ver, cache, probe, config, srv, nreq, codec, bld>>

(***************************************************************************)
(* Specifications                                                          *)
(***************************************************************************)
VerifierInit ==
    /\ now = 0
    /\ nreq = 0
    /\ \E tx \in TxSamples : ledger = [s \in Sigs |-> IF s = "sigA" THEN tx ELSE NoTx]
    /\ head \in {8, 38}
    /\ ver = VerIdle
    /\ cache = [s \in Sigs |-> NoEntry]
    /\ probe = NoProbe
    /\ config = ServerConfig(FALSE)
    /\ srv = <<>>
    /\ cli = CliIdle
    /\ codec = CodecIdle
    /\ bld = BldIdle

VerifierNext ==
    \/ \E s \in Sigs, r \in ReqSamples, c \in Commitments : VerifyCall(s, r, c)
    \/ VerifyGetTransaction
    \/ VerifyGetSlot
    \/ VerifyRpcError
    \/ AdvanceHead

VerifierSpec == VerifierInit /\ [][VerifierNext]_vars

CacheInit ==
    /\ now = 0
    /\ nreq = 0
    /\ ledger = [s \in Sigs |-> NoTx]
    /\ head = 8
    /\ ver = VerIdle
    /\ cache = [s \in Sigs |-> NoEntry]
    /\ probe = NoProbe
    /\ config = ServerConfig(TRUE)
    /\ srv = <<>>
    /\ cli = CliIdle
    /\ codec = CodecIdle
    /\ bld = BldIdle

CacheNext ==
    \/ \E s \in Sigs, v \in BOOLEAN : ProbeSet(s, v)
    \/ \E s \in Sigs : ProbeGet(s)
    \/ Tick(ClockStep)

CacheSpec == CacheInit /\ [][CacheNext]_vars

ServerInit ==
    /\ now = 0
    /\ nreq = 0
    /\ ledger = [s \in Sigs |-> NoTx]
    /\ head = 8
    /\ ver = VerIdle
    /\ cache = [s \in Sigs |-> NoEntry]
    /\ probe = NoProbe
    /\ config \in {ServerConfig(TRUE), ServerConfig(FALSE)}
    /\ srv = [p \in Procs |-> SrvIdle]
    /\ cli = CliIdle
    /\ codec = CodecIdle
    /\ bld = BldIdle

ServerNext ==
    \/ \E p \in Procs, o \in Routes, h \in Headers : RequirePayment(p, o, h)
    \/ \E p \in Procs : VerifyPaymentResolves(p)
    \/ \E p \in Procs : VerifyPaymentRpcError(p)
    \/ \E p \in Procs : RequirePaymentResume(p)
    \/ \E s \in Sigs : Land(s)
    \/ Tick(2 * ClockStep)

ServerSpec == ServerInit /\ [][ServerNext]_vars

ClientInit ==
    /\ now = 0
    /\ nreq = 0
    /\ ledger = [s \in Sigs |-> NoTx]
    /\ head = 8
    /\ ver = VerIdle
    /\ cache = [s \in Sigs |-> NoEntry]
    /\ probe = NoProbe
    /\ config = ServerConfig(TRUE)
    /\ srv = <<>>
    /\ \E cfg \in ClientConfigs : cli = [CliIdle EXCEPT !.config = cfg]
    /\ codec = CodecIdle
    /\ bld = BldIdle

ClientNext ==
    \/ \E o \in FetchOptionSamples, r \in RequestSamples : ClientFetch(o, r)
    \/ \E r \in Responses : ClientFirstResponse(r)
    \/ ClientFetchRejects
    \/ \E e \in BuildEnvs : ClientBuildResolves(e)
    \/ \E ok \in BOOLEAN : ClientSignResolves(ok)
    \/ \E ok \in BOOLEAN, s \in Sigs : ClientSendResolves(ok, s)
    \/ \E o \in {"true", "false", "throws"} : ClientConfirmResolves(o)
    \/ \E ok \in BOOLEAN, s \in Sigs : ClientHandlerResolves(ok, ProofHeader(s, "devnet", now).proof)
    \/ \E r \in Responses : ClientRetryResponse(r)
    \/ Tick(2 * ClockStep)

ClientSpec == ClientInit /\ [][ClientNext]_vars

\* The call fetch is awaiting settles: the HTTP request is answered or rejects,
\* the build, the signature, the submission, the confirmation or the caller's
\* handler returns or throws.
ClientSettles ==
    \/ \E r \in Responses : ClientFirstResponse(r)
    \/ ClientFetchRejects
    \/ \E e \in BuildEnvs : ClientBuildResolves(e)
    \/ \E ok \in BOOLEAN : ClientSignResolves(ok)
    \/ \E ok \in BOOLEAN, s \in Sigs : ClientSendResolves(ok, s)
    \/ \E o \in {"true", "false", "throws"} : ClientConfirmResolves(o)
    \/ \E ok \in BOOLEAN, s \in Sigs : ClientHandlerResolves(ok, ProofHeader(s, "devnet", now).proof)
    \/ \E r \in Responses : ClientRetryResponse(r)

\* The same client when every HTTP and ledger call eventually returns or errors.
ClientLiveSpec == ClientInit /\ [][ClientNext]_vars /\ WF_vars(ClientSettles)

CodecInit ==
    /\ now = 0
    /\ nreq = 0
    /\ ledger = [s \in Sigs |-> NoTx]
    /\ head = 8
    /\ ver = VerIdle
    /\ cache = [s \in Sigs |-> NoEntry]
    /\ probe = NoProbe
    /\ config = ServerConfig(TRUE)
    /\ srv = <<>>
    /\ cli = CliIdle
    /\ \E x \in CodecSamples : codec = CodecInput(x.amount, x.token)
    /\ bld = BldIdle

CodecNext ==
    \/ CodecEncode
    \/ CodecDecode
    \/ CodecRequire

CodecSpec == CodecInit /\ [][CodecNext]_vars

BuilderInit ==
    /\ now = 0
    /\ nreq = 0
    /\ ledger = [s \in Sigs |-> NoTx]
    /\ head = 8
    /\ ver = VerIdle
    /\ cache = [s \in Sigs |-> NoEntry]
    /\ probe = NoProbe
    /\ config = ServerConfig(TRUE)
    /\ srv = <<>>
    /\ cli = CliIdle
    /\ codec = CodecIdle
    /\ \E r \in BuildSamples, e \in BuildEnvs : bld = BldInput(r, e)

BuilderNext == Build

BuilderSpec == BuilderInit /\ [][BuilderNext]_vars

(***************************************************************************)
(* What a transaction did, read off the ledger record without the verifier *)
(***************************************************************************)
VerDone == ver.pc = "done"

\* The requirements are ones the verifier can read: the recipient is an address
\* and the amount an integer string.
WellFormed(req) == PublicKeyOk(req.recipient) /\ BigIntOk(req.amount)

\* Lamports gained by address a (0 when a is no account of the transaction).
NativeGain(tx, a) ==
    IF \E i \in DOMAIN tx.accountKeys : tx.accountKeys[i] = a
    THEN LET i == CHOOSE k \in DOMAIN tx.accountKeys : tx.accountKeys[k] = a
         IN  tx.postBalances[i] - tx.preBalances[i]
    ELSE 0

\* Token base units of mint m held by owner a according to a balance list.
Held(list, a, m) ==
    IF \E i \in DOMAIN list : list[i].owner = a /\ list[i].mint = m
    THEN list[CHOOSE i \in DOMAIN list : list[i].owner = a /\ list[i].mint = m].amount
    ELSE 0

HasEntry(list, a, m) == \E i \in DOMAIN list : list[i].owner = a /\ list[i].mint = m

TokenGain(tx, a, m) == Held(tx.postTokenBalances, a, m) - Held(tx.preTokenBalances, a, m)

AssetGain(tx, a, req) ==
    IF req.token = "SOL" THEN NativeGain(tx, a)
    ELSE TokenGain(tx, a, TOKEN_MINTS[req.network][req.token])

Owners(tx) ==
    {tx.accountKeys[i] : i \in DOMAIN tx.accountKeys}
        \cup {tx.postTokenBalances[i].owner : i \in DOMAIN tx.postTokenBalances}

InAccounts(tx, a) == \E i \in DOMAIN tx.accountKeys : tx.accountKeys[i] = a

\* The run got a transaction that succeeded on chain, no query failed, and the
\* transaction is deep enough for the commitment asked.
PassedGates ==
    /\ VerDone
    /\ ~TxMissing(ver.transaction)
    /\ ~ver.transaction.err
    /\ \A i \in DOMAIN ver.steps : ver.steps[i] # "error"
    /\ \/ ver.commitment = "confirmed"
       \/ ver.currentSlot - ver.transaction.slot >= FinalityDepth

(***************************************************************************)
(* Claims about verifyPaymentTransaction (VerifierSpec)                    *)
(***************************************************************************)

\* C3: on the native-asset path (the transaction was found, succeeded, passed
\* the finality gate and lists the recipient), the verdict is true exactly when
\* the recipient's post-balance minus pre-balance is >= the required amount.
C3_AmountStrictNative ==
    (/\ PassedGates
     /\ WellFormed(ver.requirements)
     /\ ver.requirements.token = "SOL"
     /\ InAccounts(ver.transaction, ver.requirements.recipient))
    => (ver.result
          <=> NativeGain(ver.transaction, ver.requirements.recipient)
                 >= BigInt(ver.requirements.amount))

\* C3 witness: a delta of amount - 1 to the right recipient was rejected.
C3_Witness ==
    /\ PassedGates
    /\ WellFormed(ver.requirements)
    /\ ver.requirements.token = "SOL"
    /\ InAccounts(ver.transaction, ver.requirements.recipient)
    /\ NativeGain(ver.transaction, ver.requirements.recipient)
          = BigInt(ver.requirements.amount) - 1
    /\ ~ver.result

\* Another address gained exactly the required amount of the asset while the
\* required recipient gained less than it.
PaidSomeoneElse(tx, req) ==
    /\ ~TxMissing(tx)
    /\ WellFormed(req)
    /\ \E a \in Owners(tx) :
          /\ a # req.recipient
          /\ AssetGain(tx, a, req) = BigInt(req.amount)
    /\ AssetGain(tx, req.recipient, req) < BigInt(req.amount)

\* C4: a transaction that moves the exact required amount to an address other
\* than the requirements' recipient is rejected, for the native asset and for
\* tokens, whether or not the recipient is among the transaction's accounts.
C4_RecipientStrict ==
    (VerDone /\ PaidSomeoneElse(ver.transaction, ver.requirements)) => ~ver.result

\* C4 witness: the amount checks ran on such a transaction (recipient listed,
\* paid nothing) and it was rejected.
C4_Witness ==
    /\ PassedGates
    /\ PaidSomeoneElse(ver.transaction, ver.requirements)
    /\ ver.requirements.token = "SOL"
    /\ InAccounts(ver.transaction, ver.requirements.recipient)
    /\ ~ver.result

\* The order of checks the claim states, for a commitment level.
CanonicalOrder(commitment) ==
    <<"getTransaction", "existence", "success">>
        \o (IF commitment = "finalized" THEN <<"getSlot", "finality">> ELSE <<>>)
        \o <<"recipient", "amount">>

IsPrefix(s, t) == Len(s) <= Len(t) /\ SubSeq(t, 1, Len(s)) = s

\* C5: the checks run in the order existence, success, finality depth (only at
\* finalized commitment), recipient presence, amount delta, for every asset, and
\* the call returns false at the first failing check.
C5_CheckOrder ==
    (VerDone /\ WellFormed(ver.requirements)
        /\ \A i \in DOMAIN ver.steps : ver.steps[i] # "error")
    => /\ IsPrefix(ver.steps, CanonicalOrder(ver.commitment))
       /\ ver.result => ver.steps = CanonicalOrder(ver.commitment)
       /\ (~TxMissing(ver.transaction) /\ ~ver.transaction.err
             /\ ~InAccounts(ver.transaction, ver.requirements.recipient))
          => (~ver.result /\ \A i \in DOMAIN ver.steps : ver.steps[i] # "amount")

\* C6: for a signature the ledger does not know the call returns false and
\* does not throw.
C6_UnknownSignature ==
    (VerDone /\ ledger[ver.signature] = NoTx) => (~ver.result /\ ~ver.threw)

\* C6 witness: getTransaction answered null and the call returned false.
C6_Witness ==
    /\ VerDone
    /\ ledger[ver.signature] = NoTx
    /\ ver.steps = <<"getTransaction", "existence">>
    /\ ~ver.result

\* The transaction satisfies the requirements: it succeeded and the recipient's
\* gain in the asset is at least the amount (for the native asset the recipient
\* is an account of it, for a token it has a post-balance entry).
Satisfies(tx, req) ==
    /\ ~TxMissing(tx)
    /\ ~tx.err
    /\ WellFormed(req)
    /\ IF req.token = "SOL" THEN InAccounts(tx, req.recipient)
       ELSE HasEntry(tx.postTokenBalances, req.recipient, TOKEN_MINTS[req.network][req.token])
    /\ AssetGain(tx, req.recipient, req) >= BigInt(req.amount)

\* C7: at finalized commitment a transaction fewer than 32 slots behind the
\* head is rejected, for every inclusion slot including slot 0; at confirmed
\* commitment the same, otherwise valid, transaction is accepted.
C7_FinalityGate ==
    /\ (VerDone /\ ver.commitment = "finalized" /\ ~TxMissing(ver.transaction)
          /\ head - ver.transaction.slot < FinalityDepth)
       => ~ver.result
    /\ (VerDone /\ ver.commitment = "confirmed"
          /\ Satisfies(ver.transaction, ver.requirements)
          /\ \A i \in DOMAIN ver.steps : ver.steps[i] # "error")
       => ver.result

\* C8: on the token path the verdict is true exactly when the recipient has a
\* post-balance entry for the asset's mint on the requirements' network and that
\* entry minus the pre-balance entry (zero when missing) is >= the amount.
C8_TokenDelta ==
    (/\ PassedGates
     /\ WellFormed(ver.requirements)
     /\ ver.requirements.token # "SOL")
    => LET mint == TOKEN_MINTS[ver.requirements.network][ver.requirements.token]
           rcp == ver.requirements.recipient
           tx == ver.transaction
       IN  ver.result
             <=> /\ HasEntry(tx.postTokenBalances, rcp, mint)
                 /\ Held(tx.postTokenBalances, rcp, mint)
                       - (IF HasEntry(tx.preTokenBalances, rcp, mint)
                          THEN Held(tx.preTokenBalances, rcp, mint) ELSE 0)
                    >= BigInt(ver.requirements.amount)

\* C8 witness: a token payment whose recipient had no pre-balance entry was
\* accepted on the strength of the post-balance entry alone.
C8_Witness ==
    /\ PassedGates
    /\ WellFormed(ver.requirements)
    /\ ver.requirements.token = "USDC"
    /\ ~HasEntry(ver.transaction.preTokenBalances, ver.requirements.recipient, DevUSDC)
    /\ Held(ver.transaction.postTokenBalances, ver.requirements.recipient, DevUSDC)
          = BigInt(ver.requirements.amount)
    /\ BigInt(ver.requirements.amount) > 0
    /\ ver.result

(***************************************************************************)
(* Claims about PaymentCache (CacheSpec)                                   *)
(***************************************************************************)

\* C10: after set(sig, v) at instant t, a get(sig) made while Date.now() - t is
\* within the TTL returns v, and a get made after the TTL has elapsed returns
\* absent and leaves no entry for sig behind (the read itself drops it).
C10_CacheTtl ==
    probe.op = "get" =>
        LET last == probe.sets[probe.signature]
        IN  IF last.done /\ probe.at - last.at <= config.cacheTTL * MsPerSecond
            THEN probe.got = Hit(last.verified)
            ELSE probe.got = Miss /\ cache[probe.signature] = NoEntry

\* C10 witness: a read after the TTL elapsed found the entry set earlier, answered
\* absent and dropped it.
C10_Witness ==
    /\ probe.op = "get"
    /\ probe.sets[probe.signature].done
    /\ probe.at - probe.sets[probe.signature].at > config.cacheTTL * MsPerSecond
    /\ probe.got = Miss
    /\ cache[probe.signature] = NoEntry

\* The entry of signature s is present and older than the TTL.
Stale(s) ==
    cache[s] # NoEntry /\ now - cache[s].timestamp > config.cacheTTL * MsPerSecond

\* C40: set(s, v) and get(s) leave the entries of every other signature
\* unchanged; get on an unexpired entry leaves the whole cache unchanged; get on
\* an expired entry removes that entry and nothing else.
C40_CacheFrame ==
    [][/\ \A s \in Sigs, v \in BOOLEAN :
             ProbeSet(s, v) => \A o \in Sigs \ {s} : cache'[o] = cache[o]
       /\ \A s \in Sigs :
             ProbeGet(s)
                => /\ \A o \in Sigs \ {s} : cache'[o] = cache[o]
                   /\ IF Stale(s) THEN cache'[s] = NoEntry ELSE cache'[s] = cache[s]]_vars

\* C40 witness: a read dropped the expired entry of its signature while the
\* entry of the other signature stayed.
C40_Witness ==
    /\ probe.op = "get"
    /\ probe.got = Miss
    /\ probe.sets[probe.signature].done
    /\ cache[probe.signature] = NoEntry
    /\ \E o \in Sigs \ {probe.signature} : cache[o] # NoEntry

(***************************************************************************)
(* Claims about the server guard (ServerSpec)                              *)
(***************************************************************************)
ProofOf(p) == srv[p].header.proof

\* C1: with the cache enabled and one server guarding several routes, whenever
\* requirePayment calls next() the ledger transaction named by the proof's
\* signature satisfies the requirements built for that request's route.
C1_AdmittedPaymentsSatisfyRoute ==
    \A p \in Procs :
        (config.enableCache /\ srv[p].next)
            => Satisfies(ledger[ProofOf(p).signature], srv[p].requirements)

\* C2: verifyPayment returns true for no proof whose network differs from the
\* requirements' network or whose timestamp exceeds a set deadline, whatever
\* the cache holds.
C2_NetworkAndDeadlineFirst ==
    \A p \in Procs :
        (srv[p].pc = "done" /\ srv[p].header.kind = "proof" /\ srv[p].verified)
            => /\ ProofOf(p).network = srv[p].requirements.network
               /\ ~(srv[p].requirements.deadline.set
                      /\ ProofOf(p).timestamp > srv[p].requirements.deadline.at)

\* C9: when the ledger query fails with a transport/RPC error, the failure
\* propagates as an error and the call stores no cache entry.
C9_RpcErrorNotCached ==
    \A p \in Procs :
        (srv[p].pc = "done" /\ srv[p].source = "rpcError")
            => (srv[p].threw /\ ~srv[p].stored)

\* A cache entry that exists and has not expired at this instant.
Live(s) == cache[s] # NoEntry /\ ~Expired(cache[s], now, TtlMs(config.cacheTTL))

\* C11: a cache entry is never overwritten: while an entry for a signature
\* exists and has not expired, no step of any verifyPayment call (two in-flight
\* verifications of one signature included) changes its verdict or its
\* creation instant.
C11_NeverOverwritten ==
    [][\A s \in Sigs : Live(s) => cache'[s] = cache[s]]_vars

\* A request that carried a header parsing as a valid proof and was answered.
ProofAnswered(p) == srv[p].pc = "done" /\ srv[p].header.kind = "proof"

\* C12: a request whose payment header parses as a valid proof is either passed
\* to the handler or answered 402, never 5xx, whatever verification yields
\* (network mismatch, missed deadline, absent, failed or underpaying
\* transaction, ledger RPC error).
C12_ProofNever5xx ==
    \A p \in Procs :
        ProofAnswered(p) =>
            \/ srv[p].next /\ srv[p].response = NoResponse
            \/ ~srv[p].next /\ srv[p].response.status = 402

\* Two requests are rejected with 402, one after an RPC error and one for a
\* transaction that executed and failed.
C12_Witness ==
    /\ ProofAnswered("p1") /\ srv["p1"].source = "rpcError"
    /\ srv["p1"].response.status = 402
    /\ ProofAnswered("p2") /\ srv["p2"].source = "ledger"
    /\ srv["p2"].response.status = 402
    /\ ledger[ProofOf("p2").signature] = PayFailed

\* The 402 challenge a request without a header gets on a route.
ChallengeOf(requirements) == [status |-> 402, body |-> ChallengeBody(requirements)]

\* C13: when verification of a proof fails, the 402 response is the one the
\* no-header challenge gives for the route (a Payment Requirements record),
\* the same for every failing check.
C13_FailureIsChallenge ==
    \A p \in Procs :
        (ProofAnswered(p) /\ ~srv[p].next)
            => srv[p].response = ChallengeOf(srv[p].requirements)

\* C14: a request without a payment header gets 402 with the route's
\* requirements as body; the handler is not called, no ledger query is made
\* and the cache is unchanged.
C14_NoHeaderChallenge ==
    [][\A p \in Procs, o \in Routes :
          RequirePayment(p, o, NoHeader)
              => /\ srv'[p].pc = "done"
                 /\ srv'[p].response = ChallengeOf(CreatePaymentRequirements(config, o))
                 /\ ~srv'[p].next /\ ~srv'[p].payment
                 /\ ~srv'[p].queried
                 /\ cache' = cache]_vars

C14_Witness ==
    \E p \in Procs :
        /\ srv[p].pc = "done" /\ srv[p].header = NoHeader
        /\ srv[p].options = RouteDear
        /\ srv[p].response.status = 402
        /\ \E s \in Sigs : cache[s] # NoEntry

\* C15: a request whose payment header is present but is not valid JSON or
\* violates the proof schema is rejected at once as InvalidPaymentProof; the
\* handler is not called, no ledger query is made and the cache is unchanged.
C15_MalformedRejected ==
    [][\A p \in Procs, o \in Routes, h \in {EmptyHeader, BadHeader} :
          RequirePayment(p, o, h)
              => /\ srv'[p].pc = "done"
                 /\ srv'[p].error = "InvalidPaymentProofError"
                 /\ ~srv'[p].next /\ ~srv'[p].payment
                 /\ ~srv'[p].queried
                 /\ cache' = cache]_vars

\* C16: with the deadline in unix seconds and the proof's timestamp in unix
\* milliseconds, the deadline check of verifyPayment passes a proof created at
\* or before the deadline instant and rejects one created after it.
C16_DeadlineUnits ==
    \A p \in Procs :
        (/\ ProofAnswered(p)
         /\ srv[p].source \in {"deadline", "ledger", "rpcError"}
         /\ srv[p].requirements.deadline.set)
            => (srv[p].source = "deadline"
                    <=> ProofOf(p).timestamp > srv[p].requirements.deadline.at * MsPerSecond)

\* How many of the three outcomes an invocation has produced.
Outcomes(r) ==
    (IF r.response.status = 402 THEN 1 ELSE 0)
        + (IF r.response.status = 500 THEN 1 ELSE 0)
        + (IF r.next THEN 1 ELSE 0)

\* C38: every invocation of the requirePayment middleware produces exactly one
\* outcome among responding 402, responding 500 and calling next; it never
\* both responds and calls next, and req.payment is attached if and only if
\* next is called. While the invocation is suspended it has produced none.
C38_ExactlyOneOutcome ==
    \A p \in Procs :
        /\ srv[p].pc = "done"
              => /\ Outcomes(srv[p]) = 1
                 /\ srv[p].response.status \in {0, 402, 500}
                 /\ srv[p].next => srv[p].response = NoResponse
                 /\ srv[p].payment <=> srv[p].next
        /\ srv[p].pc # "done"
              => /\ Outcomes(srv[p]) = 0
                 /\ srv[p].response = NoResponse
                 /\ ~srv[p].payment

\* C38 witness: one request was passed on with its payment context and no
\* response, another was answered 500 without reaching the handler.
C38_Witness ==
    /\ srv["p1"].pc = "done" /\ srv["p1"].next /\ srv["p1"].payment
    /\ srv["p1"].response = NoResponse
    /\ srv["p2"].pc = "done" /\ srv["p2"].response.status = 500
    /\ ~srv["p2"].next /\ ~srv["p2"].payment

\* The invocation for request p calls next() in this step.
PassedNow(p) == srv'[p].next /\ (~srv[p].next \/ srv[p].pc # srv'[p].pc \/ nreq' # nreq)

\* C32: after the guard has passed one request with transaction signature s to
\* the handler, a distinct request presenting the same signature s is not
\* passed to the handler.
C32_NoReplayedGrant ==
    [][\A p \in Procs, q \in Procs :
          (p # q /\ srv[q].pc = "done" /\ srv[q].next /\ PassedNow(p))
              => srv'[p].header.proof.signature # ProofOf(q).signature]_vars

\* Request q presented signature s for these requirements and was rejected by
\* the ledger verification itself.
RejectedByLedger(q, s, requirements) ==
    /\ srv[q].pc = "done" /\ srv[q].header.kind = "proof"
    /\ ProofOf(q).signature = s
    /\ srv[q].requirements = requirements
    /\ srv[q].source = "ledger" /\ ~srv[q].verified /\ ~srv[q].next

\* C31: a verifier rejection is transient: when a signature was rejected
\* because its transaction was not yet visible, a later request presenting the
\* same signature once the ledger shows a valid transaction is accepted, with
\* the cache enabled as well as disabled. (Transactions only appear on the
\* ledger, so a request rejected by the ledger for requirements that the
\* transaction now satisfies was rejected for a transaction not yet visible.) A
\* request arriving then is passed on or sent to the ledger, the ledger query
\* verifies it, and a verified request is passed on.
C31_RejectionTransient ==
    /\ [][\A p \in Procs, q \in Procs, o \in Routes, h \in Headers :
            LET requirements == CreatePaymentRequirements(config, o)
            IN  (/\ p # q
                 /\ h.kind = "proof"
                 /\ h.proof.network = requirements.network
                 /\ ~PastDeadline(h.proof, requirements)
                 /\ RejectedByLedger(q, h.proof.signature, requirements)
                 /\ Satisfies(ledger[h.proof.signature], requirements)
                 /\ RequirePayment(p, o, h))
                    => (srv'[p].next \/ srv'[p].pc = "getTransaction")]_vars
    /\ [][\A p \in Procs :
            (/\ VerifyPaymentResolves(p)
             /\ Satisfies(ledger[ProofOf(p).signature], srv[p].requirements))
                => srv'[p].verified]_vars
    /\ [][\A p \in Procs :
            (RequirePaymentResume(p) /\ srv[p].verified) => srv'[p].next]_vars

\* The entry of signature s is present and within the TTL window.
InWindow(s) ==
    cache[s] # NoEntry /\ now - cache[s].timestamp <= config.cacheTTL * MsPerSecond

\* With the cache enabled a ledger verification that completes stores its
\* verdict, and a verification of a signature that starts while the stored
\* verdict is within the TTL window returns it without querying the ledger.
MemoizedInWindow ==
    /\ [][\A p \in Procs :
            (config.enableCache /\ RequirePaymentResume(p))
                => cache'[ProofOf(p).signature] = Entry(srv[p].verified, now)]_vars
    /\ [][\A p \in Procs, o \in Routes, h \in Headers :
            (/\ config.enableCache
             /\ h.kind = "proof"
             /\ InWindow(h.proof.signature)
             /\ RequirePayment(p, o, h))
                => /\ srv'[p].pc = "done"
                   /\ srv'[p].source = "cache"
                   /\ ~srv'[p].queried
                   /\ srv'[p].verified = cache[h.proof.signature].verified
                   /\ srv'[p].next = cache[h.proof.signature].verified
                   /\ cache' = cache]_vars

\* C33 as stated: with the cache enabled, once a verification of signature s
\* has reached the ledger verifier and completed, every later sequential
\* verification of s within the TTL window returns the stored verdict without
\* querying the ledger; with the cache disabled every verification queries the
\* ledger.
C33_OneLedgerQueryPerWindow ==
    /\ MemoizedInWindow
    /\ [][\A p \in Procs, o \in Routes, h \in Headers :
            (~config.enableCache /\ h.kind = "proof" /\ RequirePayment(p, o, h))
                => srv'[p].pc = "getTransaction" /\ srv'[p].queried]_vars

\* C33 amended: the same with the cache enabled; with the cache disabled every
\* verification whose proof passes the network and deadline checks queries the
\* ledger, and one that fails them is rejected without a query.
C33_Amended ==
    /\ MemoizedInWindow
    /\ [][\A p \in Procs, o \in Routes, h \in Headers :
            (~config.enableCache /\ h.kind = "proof" /\ RequirePayment(p, o, h))
                => LET requirements == CreatePaymentRequirements(config, o)
                   IN  IF h.proof.network = requirements.network
                            /\ ~PastDeadline(h.proof, requirements)
                       THEN srv'[p].pc = "getTransaction" /\ srv'[p].queried
                       ELSE /\ srv'[p].pc = "done" /\ ~srv'[p].queried
                            /\ ~srv'[p].next]_vars

\* C33 witness: one request's ledger verification stored its verdict, and a
\* later request with the same signature was answered from the cache without
\* a query.
C33_Witness ==
    /\ config.enableCache
    /\ srv["p1"].pc = "done" /\ srv["p1"].source = "ledger" /\ srv["p1"].stored
    /\ srv["p2"].pc = "done" /\ srv["p2"].source = "cache" /\ ~srv["p2"].queried
    /\ ProofOf("p2").signature = ProofOf("p1").signature
    /\ srv["p2"].verified = srv["p1"].verified
    /\ srv["p2"].next

\* In this step the call of request p, resuming after its ledger verification
\* returned, stores the verdict it was given under its own signature s.
StoresOwnVerdict(p, s) ==
    /\ srv[p].pc = "verified" /\ srv'[p].pc = "done"
    /\ ProofOf(p).signature = s
    /\ cache'[s] = Entry(srv[p].verified, now)
    /\ srv'[p].verified = srv[p].verified

\* In this step a request arrives that presents signature s.
ArrivesWith(p, s) ==
    /\ nreq' # nreq
    /\ srv'[p].header.kind = "proof"
    /\ srv'[p].header.proof.signature = s
    /\ RequirePayment(p, srv'[p].options, srv'[p].header)

CliDone == cli.pc = "done"

\* Nothing was built, signed or submitted and only the original request went out.
NothingPaid == cli.builds = 0 /\ cli.signs = 0 /\ cli.sends = 0 /\ cli.http = 1

\* The first request was answered 402 and no signer is configured.
ChallengedUnsigned == CliDone /\ cli.first.status = 402 /\ RequestSigner(cli) = "none"

\* C17 as stated: when a request is answered 402 and no signer is configured
\* (on the client or on the call), fetch ends with a PaymentRequiredError
\* carrying the requirements parsed from the 402 body; nothing is built, signed
\* or submitted and no second HTTP request is issued.
C17_NoSignerPaymentRequired ==
    ChallengedUnsigned
        => /\ cli.result.kind = "PaymentRequiredError"
           /\ cli.result.requirements = cli.first.body
           /\ NothingPaid

\* C17 amended: when a request is answered 402 and no signer is configured,
\* nothing is built, signed or submitted and no second request is issued; with
\* automatic payment enabled fetch ends with a PaymentRequiredError carrying the
\* requirements parsed from the body when the body parses as requirements and
\* with a parse error when it does not; with automatic payment disabled fetch
\* returns the 402 response.
C17_NoSignerAmended ==
    ChallengedUnsigned
        => /\ NothingPaid
           /\ IF ~cli.options.autoPayment
              THEN cli.result = [kind |-> "response", response |-> cli.first,
                                 requirements |-> NoRequirements]
              ELSE IF RequirementsSchemaOk(cli.first.body)
                   THEN /\ cli.result.kind = "PaymentRequiredError"
                        /\ cli.result.requirements = cli.first.body
                   ELSE cli.result.kind = "Error"

C17_Witness ==
    /\ ChallengedUnsigned
    /\ cli.options.autoPayment
    /\ cli.result.kind = "PaymentRequiredError"
    /\ cli.result.requirements = CreatePaymentRequirements(ServerConfig(TRUE), RouteDear)

\* C18: one fetch call pays at most once and issues at most two HTTP requests;
\* the retried response is returned as it is whatever its status, and a second
\* 402 starts no other build, signature, submission or request.
C18_PaysAtMostOnce ==
    /\ cli.http <= 2
    /\ cli.builds + cli.handlers <= 1
    /\ cli.signs <= 1
    /\ cli.sends <= 1
    /\ cli.retried # NoResponse
           => /\ CliDone
              /\ cli.result = [kind |-> "response", response |-> cli.retried,
                               requirements |-> NoRequirements]

C18_Witness ==
    /\ CliDone
    /\ cli.retried.status = 402
    /\ cli.sends = 1 /\ cli.http = 2
    /\ cli.result.response.status = 402

C20_RetryOnlyAfterConfirmed ==
    /\ cli.confirmed = "false"
           => CliDone /\ cli.result.kind = "TransactionFailedError" /\ cli.http = 1
    /\ cli.http = 2
           => cli.confirmed = "true" /\ cli.commitment = cli.config.commitment

\* C20 amended: the same, except that when the caller supplied an
\* onPaymentRequired handler the retried request is sent after that handler
\* returned a proof, and the client itself submits and confirms nothing.
C20_RetryAmended ==
    /\ cli.confirmed = "false"
           => CliDone /\ cli.result.kind = "TransactionFailedError" /\ cli.http = 1
    /\ cli.http = 2
           => IF cli.options.onPaymentRequired
              THEN cli.handlers = 1 /\ cli.sends = 0 /\ cli.confirms = 0
              ELSE cli.confirmed = "true" /\ cli.commitment = cli.config.commitment

C20_Witness ==
    /\ cli.confirmed = "false"
    /\ cli.config.commitment = "finalized"
    /\ CliDone

\* C21: the retried request differs from the original request only by the
\* added payment header: method, body and every other original header (an
\* original Content-Type included) are unchanged.
C21_RetryPreservesRequest ==
    cli.http = 2
        => /\ cli.retryRequest.method = cli.request.method
           /\ cli.retryRequest.body = cli.request.body
           /\ cli.retryRequest.headers.contentType = cli.request.headers.contentType
           /\ cli.retryRequest.headers.authorization = cli.request.headers.authorization
           /\ cli.retryRequest.headers.xPayment = cli.retryHeader

\* A step of the payment failed: the build threw, the wallet refused to sign,
\* the submission was rejected, or the confirmation threw or reported failure.
PaymentStepFailed ==
    \/ cli.transaction # NoBuild /\ ~cli.transaction.ok
    \/ cli.confirmed \in {"false", "throws"}
    \/ cli.failedAt \in {"build", "sign", "send", "confirm"}

\* C22: every failure while building, signing, submitting or confirming the
\* payment makes fetch fail with a TransactionFailedError that wraps the
\* underlying cause, and no retried HTTP request is issued after it.
C22_FailureWrapsCause ==
    PaymentStepFailed
        => /\ CliDone
           /\ cli.result.kind = "TransactionFailedError"
           /\ cli.failedAt \in {"build", "sign", "send", "confirm"}
           /\ cli.cause # "none"
           /\ cli.failedAt = "build" => cli.cause = cli.transaction.error
           /\ cli.http = 1
           /\ cli.retryRequest = NoRequest
           /\ cli.retried = NoResponse

C22_Witness ==
    /\ CliDone
    /\ cli.failedAt = "send"
    /\ cli.result.kind = "TransactionFailedError"
    /\ cli.cause = "SendError"
    /\ cli.sends = 1

\* The first request was answered 402 with a body the requirements schema
\* refuses.
SchemaMismatch == cli.first.status = 402 /\ ~RequirementsSchemaOk(cli.first.body)

\* C23 as stated: when a 402 response body does not satisfy the requirements
\* schema, fetch fails with the parse error and no transaction is built,
\* signed or submitted.
C23_SchemaMismatchFails ==
    SchemaMismatch
        => /\ CliDone
           /\ cli.result.kind = "Error"
           /\ cli.builds = 0 /\ cli.signs = 0 /\ cli.sends = 0

\* C23 amended: when a 402 response body does not satisfy the requirements
\* schema, no transaction is built, signed or submitted, no payment handler is
\* called and no second request goes out; with automatic payment enabled fetch
\* fails with the parse error, with automatic payment disabled it returns the
\* 402 response.
C23_SchemaMismatchAmended ==
    SchemaMismatch
        => /\ CliDone
           /\ cli.builds = 0 /\ cli.signs = 0 /\ cli.sends = 0
           /\ cli.handlers = 0 /\ cli.http = 1
           /\ IF cli.options.autoPayment
              THEN cli.result.kind = "Error" /\ cli.result.response = NoResponse
              ELSE cli.result.kind = "response" /\ cli.result.response = cli.first

C23_Witness ==
    /\ SchemaMismatch
    /\ cli.first.body = UnknownSchemeChallenge
    /\ cli.options.autoPayment
    /\ RequestSigner(cli) = "keypair"
    /\ cli.result.kind = "Error"

\* With automatic payment on, the first request was answered 402 with a
\* requirements body whose scheme is unknown, whose amount is negative or whose
\* recipient is not an address.
InvalidChallenge ==
    /\ cli.first.status = 402
    /\ cli.options.autoPayment
    /\ {"scheme", "amount", "recipient"} \subseteq DOMAIN cli.first.body
    /\ \/ cli.first.body.scheme \notin {"exact", "upto"}
       \/ cli.first.body.amount # <<>> /\ cli.first.body.amount[1] = "-"
       \/ ~PublicKeyOk(cli.first.body.recipient)

\* C27: parsing a payment challenge fails for an unknown scheme, for a negative
\* amount and for a malformed recipient address, so no transaction is ever
\* built from such requirements.
C27_InvalidNeverBuilt ==
    InvalidChallenge
        => /\ ~ParsePaymentRequirements(cli.first).ok
           /\ cli.result.kind = "Error"
           /\ cli.builds = 0

\* C29: when the payer has no associated token account for the asset's mint,
\* the token build fails with the missing-source-account error, adds no
\* instruction (none that provisions the payer's account either), and nothing
\* is signed or submitted.
C29_MissingSourceAccount ==
    /\ [][\A e \in BuildEnvs :
            (ClientBuildResolves(e) /\ cli.requirements.token # "SOL" /\ ~e.senderAccount)
                => /\ cli'.pc = "done"
                   /\ cli'.failedAt = "build"
                   /\ cli'.result.kind = "TransactionFailedError"
                   /\ ~cli'.transaction.ok
                   /\ cli'.transaction.instructions = <<>>
                   /\ cli'.signs = 0 /\ cli'.sends = 0
                   /\ (/\ PublicKeyOk(cli.requirements.recipient)
                       /\ BigIntOk(cli.requirements.amount)
                       /\ e.failAt # "senderInfo")
                         => cli'.cause = "MissingSourceAccount"]_vars
    /\ [](cli.cause = "MissingSourceAccount"
            => CliDone /\ cli.signs = 0 /\ cli.sends = 0 /\ cli.http = 1)

C29_Witness ==
    /\ CliDone
    /\ cli.requirements = TokenChallenge
    /\ cli.failedAt = "build"
    /\ cli.cause = "MissingSourceAccount"
    /\ cli.transaction.instructions = <<>>
    /\ cli.signs = 0 /\ cli.sends = 0


\* C36: a signer is handled as a local signer (signed with its secret key by
\* signAndSendTransaction) if and only if it is a local keypair; every
\* external-wallet signer, one whose object carries a secretKey property
\* included, is handled through its own signTransaction.
C36_SignerByConstruction ==
    cli.via # "none"
        => /\ cli.via = "signAndSendTransaction" <=> RequestSigner(cli) = "keypair"
           /\ cli.via = "signTransaction"
                 <=> RequestSigner(cli) \in {"wallet", "walletWithSecretKey"}

\* The step that may follow each step of a fetch call when it completes
\* successfully; a caller's payment handler stands for build to confirm.
StepOrder ==
    {<<"idle", "request">>, <<"request", "build">>, <<"request", "handler">>,
     <<"build", "sign">>, <<"build", "send">>, <<"sign", "send">>,
     <<"send", "confirm">>, <<"confirm", "retry">>, <<"handler", "retry">>}

NoPaymentAsked ==
    cli.first # NoResponse /\ (cli.first.status # 402 \/ ~cli.options.autoPayment)

\* C37: when the initial response status is not 402, or autoPayment is false,
\* fetch returns that response unchanged after exactly one HTTP request, with
\* no requirements parsing and no ledger operation.
C37_PassThrough ==
    NoPaymentAsked
        => /\ CliDone
           /\ cli.result = [kind |-> "response", response |-> cli.first,
                            requirements |-> NoRequirements]
           /\ cli.requirements = NoRequirements
           /\ cli.http = 1 /\ cli.retryRequest = NoRequest
           /\ cli.builds = 0 /\ cli.signs = 0 /\ cli.sends = 0 /\ cli.confirms = 0
           /\ cli.handlers = 0 /\ cli.transaction = NoBuild

\* C37 witness: a 402 came back to a caller who has a signer and switched
\* automatic payment off.
C37_Witness ==
    /\ NoPaymentAsked
    /\ cli.first.status = 402
    /\ RequestSigner(cli) = "wallet"
    /\ cli.options.onPaymentRequired
    /\ cli.result.response = cli.first

\* C39: provided every HTTP and ledger call eventually returns or errors, every
\* fetch call eventually terminates, with a response returned or an error
\* thrown; there is no loop in which it keeps paying or retrying.
C39_FetchTerminates ==
    (cli.pc # "idle") ~> (CliDone /\ cli.result.kind # "none")

\* C39 witness: a call that paid ended when its retried request was rejected.
C39_Witness ==
    /\ CliDone
    /\ cli.result.kind = "FetchError"
    /\ cli.http = 2
    /\ cli.confirmed = "true"

(***************************************************************************)
(* Claims about the amount codec (CodecSpec)                               *)
(***************************************************************************)
RECURSIVE Pow10(_)
Pow10(n) == IF n = 0 THEN 1 ELSE 10 * Pow10(n - 1)

WholeOf(d) == Split(d)[1]
Dotted(d) == Len(Split(d)) >= 2
FractionOf(d) == IF Dotted(d) THEN Split(d)[2] ELSE <<>>

\* floor(d * 10^precision), by arithmetic on the value of d.
FloorScaled(d, precision) ==
    LET k == Len(FractionOf(d))
        w == DigitsVal(WholeOf(d))
        f == DigitsVal(FractionOf(d))
    IN  w * Pow10(precision)
          + (IF k <= precision THEN f * Pow10(precision - k) ELSE f \div Pow10(k - precision))

\* A decimal string with a whole part free of superfluous zeros and at most
\* precision fractional digits.
ValidDecimal(d, precision) ==
    /\ WholeOf(d) # <<>>
    /\ Len(WholeOf(d)) > 1 => WholeOf(d)[1] # "0"
    /\ Len(FractionOf(d)) <= precision

RECURSIVE DropZeros(_)
DropZeros(s) ==
    IF s # <<>> /\ s[Len(s)] = "0" THEN DropZeros(SubSeq(s, 1, Len(s) - 1)) ELSE s

\* d without trailing fractional zeros and without a trailing decimal point.
Canonical(d) ==
    IF DropZeros(FractionOf(d)) = <<>> THEN WholeOf(d)
    ELSE WholeOf(d) \o <<".">> \o DropZeros(FractionOf(d))

\* C24: the amount of the requirements createPaymentRequirements builds for a
\* price equals the decimal string of amountToBaseUnits(price, asset).
C24_RequirementsUseCodec ==
    codec.required
        => codec.requirements.amount
              = BigIntToString(AmountToBaseUnits(codec.amount, codec.token))

\* C25: for every asset and every valid decimal string d within the asset's
\* precision, baseUnitsToAmount(amountToBaseUnits(d, asset), asset) is the
\* canonical form of d.
C25_RoundTrip ==
    (codec.decoded /\ ValidDecimal(codec.amount, TOKEN_DECIMALS[codec.token]))
        => codec.back = Canonical(codec.amount)

C25_Witness ==
    /\ codec.decoded
    /\ codec.amount = <<"1", "0", "0", ".", "5", "0">>
    /\ codec.back = <<"1", "0", "0", ".", "5">>

\* C26: amountToBaseUnits pads a short fraction with zeros and cuts a long one
\* at the precision without rounding: the result is floor(d * 10^precision).
C26_PadTruncate ==
    codec.encoded
        => codec.baseUnits = FloorScaled(codec.amount, TOKEN_DECIMALS[codec.token])

C26_Witness ==
    /\ codec.encoded
    /\ codec.token = "USDC"
    /\ codec.amount = <<"0", ".", "9", "9", "9", "9", "9", "9", "9">>
    /\ codec.baseUnits = 999999

(***************************************************************************)
(* Claims about the transaction builders (BuilderSpec)                     *)
(***************************************************************************)
BldDone == bld.pc = "done"

\* The requirements' amount is a non-negative integer and the recipient parses.
Buildable(req) ==
    /\ PublicKeyOk(req.recipient)
    /\ \A i \in DOMAIN req.amount : IsDigit(req.amount[i])
    /\ req.amount # <<>>

\* The amount is above 2^53 - 1: it has more digits than the bound, or as many
\* and is not the bound or one of the sampled values below it.
AboveSafeBound(amount) ==
    LET a == DropLeadingZeros(amount)
    IN  \/ Len(a) > Len(MAX_SAFE_INTEGER)
        \/ Len(a) = Len(MAX_SAFE_INTEGER)
             /\ \E i \in DOMAIN a :
                   /\ SubSeq(a, 1, i - 1) = SubSeq(MAX_SAFE_INTEGER, 1, i - 1)
                   /\ DigitVal(a[i]) > DigitVal(MAX_SAFE_INTEGER[i])

\* C28: createSOLPaymentTransaction fails with the out-of-range error for every
\* base-unit amount above 2^53 - 1; for every amount at or below it the built
\* transaction holds one transfer of exactly that amount from payer to
\* recipient.
C28_SafeIntegerBound ==
    (BldDone /\ bld.requirements.token = "SOL" /\ Buildable(bld.requirements))
        => IF AboveSafeBound(bld.requirements.amount)
           THEN ~bld.out.ok /\ bld.out.error = "AmountOutOfRange"
           ELSE \/ ~bld.out.ok /\ bld.out.error = "RpcError"
                \/ /\ bld.out.ok
                   /\ bld.out.instructions =
                        <<SystemTransfer(bld.payer, bld.requirements.recipient,
                                         DropLeadingZeros(bld.requirements.amount))>>

C28_Witness ==
    /\ BldDone /\ bld.requirements.token = "SOL"
    /\ bld.requirements.amount = MAX_SAFE_INTEGER
    /\ bld.out.ok
    /\ bld.out.instructions[1].amount = MAX_SAFE_INTEGER

\* C30: when the recipient has no associated token account the built token
\* transaction holds a create-account instruction followed by the transfer;
\* when the account exists it holds the transfer only.
C30_CreateThenTransfer ==
    (BldDone /\ bld.requirements.token # "SOL" /\ bld.out.ok)
        => LET mint == TOKEN_MINTS[bld.requirements.network][bld.requirements.token]
               from == AssociatedTokenAddress(mint, bld.payer)
               to == AssociatedTokenAddress(mint, bld.requirements.recipient)
               transfer == TokenTransfer(from, to, bld.payer,
                                         BigDigits(bld.requirements.amount))
               create == CreateAccount(bld.payer, to, bld.requirements.recipient, mint)
           IN  bld.out.instructions =
                  IF bld.env.recipientAccount THEN <<transfer>> ELSE <<create, transfer>>

C30_Witness ==
    /\ BldDone /\ bld.requirements.token = "USDC" /\ bld.out.ok
    /\ ~bld.env.recipientAccount
    /\ Len(bld.out.instructions) = 2
    /\ bld.out.instructions[1].type = "create"

====
